---- MODULE Spec2Model ----
(***************************************************************************)
(* The Firefox structured-clone deserializer of ee/katc                    *)
(* (deserialize_firefox.go), as a state machine over a byte reader, and    *)
(* the PresenceDetector of ee/presencedetection (presencedetection.go), as *)
(* a state machine of concurrent callers.                                  *)
(*                                                                         *)
(* Representation.                                                         *)
(*   byte      an integer in 0..255                                        *)
(*   []byte    a sequence of bytes; a Go string is the same sequence       *)
(*   uint32    a pair <<hi, lo>> of 16-bit halves, value hi * 2^16 + lo    *)
(*             (integers here are 32-bit signed, so a tag such as          *)
(*             0xffff0004 cannot be one integer)                           *)
(*   uint64    four 16-bit limbs, most significant first                   *)
(*   error     a sequence of context strings, outermost first; the nil     *)
(*             error is the empty sequence                                 *)
(*   reader    bytes.Reader: the bytes s and the read position i           *)
(***************************************************************************)
EXTENDS Integers, Sequences, FiniteSets, TLC

VARIABLES
    pc,         \* position of the caller: "call" before the call, "done" after
    row,        \* deserializeFirefox's argument: column name -> bytes
    srcReader,  \* the bytes.Reader the functions read from: [s, i]
    args,       \* the other arguments of the function under call
    ret,        \* what the call returned
    gen,        \* how the input was produced (the tree that was encoded, ...)
    pd,         \* the PresenceDetector of ee/presencedetection
    now         \* the wall clock time.Now reads, in seconds

vars == <<pc, row, srcReader, args, ret, gen, pd, now>>

\* the zero value of PresenceDetector: lastDetection the zero time.Time, the
\* mutex unlocked, no detector
ZeroDetector == [lastDetection |-> 0, mutex |-> FALSE, detector |-> "nil"]

----------------------------------------------------------------------------
(* Bounds of the model *)

\* longest byte stream handed to nextPair alone
MaxPairStream == 9

\* deepest nesting of composites inside a value of the top-level object
MaxNest == 2

\* the cap on composite nesting that the decoder is tried against
DepthCap == 12

\* longest string, in characters, in the blobs that vary the padding
MaxStrLen == 9

----------------------------------------------------------------------------
(* Values *)

Byte == 0..255

NilErr == <<>>

Wrap(ctx, err) == <<ctx>> \o err

Min(a, b) == IF a <= b THEN a ELSE b

U32(hi, lo) == <<hi, lo>>

U32Zero == U32(0, 0)

U32Less(a, b) == a[1] < b[1] \/ (a[1] = b[1] /\ a[2] < b[2])

tagHeader == U32(\hfff1, \h0000)

tagNull == U32(\hffff, \h0000)

tagUndefined == U32(\hffff, \h0001)

tagBoolean == U32(\hffff, \h0002)

tagInt32 == U32(\hffff, \h0003)

tagString == U32(\hffff, \h0004)

tagDateObject == U32(\hffff, \h0005)

tagArrayObject == U32(\hffff, \h0007)

tagObjectObject == U32(\hffff, \h0008)

tagBooleanObject == U32(\hffff, \h000a)

tagStringObject == U32(\hffff, \h000b)

tagMapObject == U32(\hffff, \h0011)

tagSetObject == U32(\hffff, \h0012)

tagEndOfKeys == U32(\hffff, \h0013)

tagFloatMax == U32(\hfff0, \h0000)

----------------------------------------------------------------------------
(* The pair reader *)

\* binary.BigEndian.Uint32 of a 4-byte slice b
BigEndianUint32(b) == U32(b[1] * 256 + b[2], b[3] * 256 + b[4])

\* pairBytes after the loop of nextPair, when 8 bytes remain: the loop
\* stores the k-th byte read at index 7 - (k - 1)
PairBytesReversed(s, i) == [k \in 1..8 |-> s[i + 9 - k]]

\* a mutant: the bytes stored in reading order
PairBytesInOrder(s, i) == [k \in 1..8 |-> s[i + k]]

PairBytes(s, i) == PairBytesReversed(s, i)

\* a mutant: the end of the stream read as the pair that ends a composite
nextPairEndAtEOF(s, i) ==
    IF Len(s) - i < 8
    THEN [tag |-> tagEndOfKeys, data |-> U32Zero, err |-> NilErr, i |-> Len(s)]
    ELSE [tag  |-> BigEndianUint32(SubSeq(PairBytes(s, i), 1, 4)),
          data |-> BigEndianUint32(SubSeq(PairBytes(s, i), 5, 8)),
          err  |-> NilErr, i |-> i + 8]

\* nextPair(srcReader): the next (tag, data) pair, the error, and the
\* reader's position afterwards. A failed ReadByte leaves the reader at the
\* end of its bytes.
nextPair(s, i) ==
    IF Len(s) - i < 8
    THEN [tag |-> U32Zero, data |-> U32Zero,
          err |-> <<"reading byte in pair", "EOF">>, i |-> Len(s)]
    ELSE LET pairBytes == PairBytes(s, i)
         IN  [tag  |-> BigEndianUint32(SubSeq(pairBytes, 1, 4)),
              data |-> BigEndianUint32(SubSeq(pairBytes, 5, 8)),
              err  |-> NilErr, i |-> i + 8]

----------------------------------------------------------------------------
(* Reader state threaded through the decoder: the position i, the log of   *)
(* reads made so far (<<call site, position before the read>>, and for a   *)
(* string its length in characters) and the deepest composite nesting      *)
(* entered.                                                                *)

St(i, log, depth) == [i |-> i, log |-> log, depth |-> depth]

Ok(val, st) == [val |-> val, err |-> NilErr, st |-> st]

Fail(err, st) == [val |-> <<>>, err |-> err, st |-> st]

IsPanic(err) == err # NilErr /\ err[1] = "panic"

\* fmt.Errorf("ctx: %w", err); a panic is not an error value and unwinds
\* through every caller unwrapped
WrapErr(ctx, err) == IF IsPanic(err) THEN err ELSE Wrap(ctx, err)

Enter(st, d) == [st EXCEPT !.depth = IF d > @ THEN d ELSE @]

\* a call of nextPair at the named call site
ReadPair(s, st, site) ==
    LET logged(p) ==
            [tag |-> p.tag, data |-> p.data, err |-> p.err,
             st |-> [st EXCEPT !.i = p.i, !.log = Append(@, <<site, st.i>>)]]
    IN  logged(nextPair(s, st.i))

----------------------------------------------------------------------------
(* strconv *)

IsZero(limbs) == \A k \in 1..Len(limbs) : limbs[k] = 0

\* limbs \div 10 and limbs % 10, by long division in base 2^16
RECURSIVE LongDiv10(_, _, _, _)
LongDiv10(limbs, k, rem, quot) ==
    IF k > Len(limbs) THEN <<quot, rem>>
    ELSE LET cur == rem * 65536 + limbs[k]
         IN  LongDiv10(limbs, k + 1, cur % 10, Append(quot, cur \div 10))

RECURSIVE DecimalDigits(_)
DecimalDigits(limbs) ==
    IF IsZero(limbs) THEN <<>>
    ELSE LET qr == LongDiv10(limbs, 1, 0, <<>>)
         IN  Append(DecimalDigits(qr[1]), 48 + qr[2])

\* a mutant: the number cut to 32 bits before it is formatted
FormatLow32(limbs) ==
    IF limbs[3] = 0 /\ limbs[4] = 0 THEN <<48>>
    ELSE DecimalDigits(<<0, 0, limbs[3], limbs[4]>>)

\* strconv.FormatUint(d, 10) of the uint64 d given as four limbs
FormatUint(limbs) == IF IsZero(limbs) THEN <<48>> ELSE DecimalDigits(limbs)

\* uint64(itemData) | uint64(itemTag)<<32
TagInHighWord(hi, lo) == <<hi[1], hi[2], lo[1], lo[2]>>

\* a mutant: the two words the other way round
TagInLowWord(hi, lo) == <<lo[1], lo[2], hi[1], hi[2]>>

U64(hi, lo) == TagInHighWord(hi, lo)

\* strconv.Itoa(int(itemData)): int is 64 bits wide on the platforms the
\* agent is built for, so the conversion keeps the unsigned value
ItoaOfUint32(u) == FormatUint(U64(U32Zero, u))

----------------------------------------------------------------------------
(* UTF-16 (golang.org/x/text/encoding/unicode) and UTF-8 *)

\* utf8.EncodeRune for a rune below 0x10000 that is no surrogate
EncodeRune(r) ==
    IF r < 128 THEN <<r>>
    ELSE IF r < 2048 THEN <<192 + (r \div 64), 128 + (r % 64)>>
    ELSE <<224 + (r \div 4096), 128 + ((r \div 64) % 64), 128 + (r % 64)>>

RuneErrorBytes == <<239, 191, 189>>

IsSurrogate(r) == r >= 55296 /\ r <= 57343

\* the 16-bit unit at byte k of b, in the given endianness
Unit(b, k, little) == IF little THEN b[k + 1] * 256 + b[k] ELSE b[k] * 256 + b[k + 1]

\* the decoder's loop over 2-byte units from byte k on; a surrogate pair
\* becomes a 4-byte sequence, a lone surrogate the replacement character
RECURSIVE DecodeUnits(_, _, _)
DecodeUnits(b, k, little) ==
    IF k > Len(b) THEN <<>>
    ELSE IF k = Len(b) THEN RuneErrorBytes
    ELSE LET r == Unit(b, k, little)
         IN  IF ~IsSurrogate(r) THEN EncodeRune(r) \o DecodeUnits(b, k + 2, little)
             ELSE IF k + 3 <= Len(b) /\ Unit(b, k + 2, little) >= 56320
                                     /\ Unit(b, k + 2, little) <= 57343
             THEN LET x == Unit(b, k + 2, little)
                  IN  IF r < 56320
                      THEN LET c == 65536 + (r - 55296) * 1024 + (x - 56320)
                           IN  <<240 + (c \div 262144), 128 + ((c \div 4096) % 64),
                                 128 + ((c \div 64) % 64), 128 + (c % 64)>>
                               \o DecodeUnits(b, k + 4, little)
                      ELSE RuneErrorBytes \o DecodeUnits(b, k + 4, little)
             ELSE RuneErrorBytes \o DecodeUnits(b, k + 2, little)

\* unicode.UTF16(unicode.LittleEndian, unicode.UseBOM).NewDecoder() read to
\* the end: a leading byte order mark is consumed and selects the
\* endianness, little-endian otherwise. The decoder replaces what it cannot
\* decode and returns no error.
DecodeUTF16(b) ==
    IF Len(b) >= 2 /\ b[1] = 254 /\ b[2] = 255 THEN DecodeUnits(b, 3, FALSE)
    ELSE IF Len(b) >= 2 /\ b[1] = 255 /\ b[2] = 254 THEN DecodeUnits(b, 3, TRUE)
    ELSE DecodeUnits(b, 1, TRUE)

----------------------------------------------------------------------------
(* The string decoder *)

\* bitMask(31) applied to strData: the low 31 bits
MaskLow31(u) == U32(u[1] % 32768, u[2])

\* a mutant: the flag bit left in the length
MaskNothing(u) == u

StrLenOf(u) == MaskLow31(u)

\* strData & (1 << 31), as a truth value
Bit31(u) == u[1] >= 32768

\* a mutant: the flag looked for one bit lower
Bit30(u) == u[1] % 32768 >= 16384

AsciiFlag(u) == Bit31(u)

\* a uint32 below 2^31 as an integer
IntOf(u) == u[1] * 65536 + u[2]

\* the padding loop: 8 - n % 8 calls of ReadByte when n % 8 > 0, their
\* results discarded; a call at the end of the stream reads nothing
PaddingToWord(n) == IF n % 8 > 0 THEN 8 - (n % 8) ELSE 0

\* a mutant: a whole word of padding after a string that fills its words
PaddingAlways(n) == 8 - (n % 8)

PaddingLen(n) == PaddingToWord(n)

\* the reader after the padding loop
PaddingRead(s, i, n) == Min(i + PaddingLen(n), Len(s))

\* a mutant: the padding skipped without looking for the end of the stream
PaddingSought(s, i, n) == i + PaddingLen(n)

AfterPadding(s, i, n) == PaddingRead(s, i, n)

\* the strLen bytes read into strBytes
BodyBytes(s, i, n) == SubSeq(s, i + 1, i + n)

\* a mutant: the padding kept in the string
BodyWithPadding(s, i, n) == SubSeq(s, i + 1, AfterPadding(s, i + n, n))

StrBytes(s, i, n) == BodyBytes(s, i, n)

deserializeAsciiString(strLen, s, st) ==
    LET st1 == [st EXCEPT !.log = Append(@, <<"ascii string", st.i, IntOf(strLen)>>)]
    IN  IF strLen[1] >= 32768 \/ IntOf(strLen) > Len(s) - st.i
        THEN Fail(<<"reading byte in string", "EOF">>, [st1 EXCEPT !.i = Len(s)])
        ELSE LET n == IntOf(strLen)
             IN  Ok(StrBytes(s, st.i, n), [st1 EXCEPT !.i = AfterPadding(s, st.i + n, n)])

\* lenToRead = strLen * 2 cannot wrap: strLen is below 2^31. A length
\* beyond the stream is decided before doubling, which keeps the doubled
\* length inside the 32-bit integers of the model.
deserializeUtf16String(strLen, s, st) ==
    LET st1 == [st EXCEPT !.log = Append(@, <<"utf16 string", st.i, IntOf(strLen)>>)]
    IN  IF strLen[1] >= 32768 \/ IntOf(strLen) > Len(s) - st.i
           \/ IntOf(strLen) * 2 > Len(s) - st.i
        THEN Fail(<<"reading byte in string", "EOF">>, [st1 EXCEPT !.i = Len(s)])
        ELSE LET lenToRead == IntOf(strLen) * 2
             IN  Ok(DecodeUTF16(StrBytes(s, st.i, lenToRead)),
                    [st1 EXCEPT !.i = AfterPadding(s, st.i + lenToRead, lenToRead)])

deserializeString(strData, s, st) ==
    IF AsciiFlag(strData)
    THEN deserializeAsciiString(StrLenOf(strData), s, st)
    ELSE deserializeUtf16String(StrLenOf(strData), s, st)

----------------------------------------------------------------------------
(* encoding/json *)

HexDigit(n) == IF n < 10 THEN 48 + n ELSE 87 + n

\* htmlSafeSet: the ASCII bytes written as they are
HtmlSafe(c) == c >= 32 /\ c \notin {34, 38, 60, 62, 92}

\* the escape of an ASCII byte outside htmlSafeSet
EscapeAscii(c) ==
    IF c \in {34, 92} THEN <<92, c>>
    ELSE IF c = 8 THEN <<92, 98>>
    ELSE IF c = 12 THEN <<92, 102>>
    ELSE IF c = 10 THEN <<92, 110>>
    ELSE IF c = 13 THEN <<92, 114>>
    ELSE IF c = 9 THEN <<92, 116>>
    ELSE <<92, 117, 48, 48, HexDigit(c \div 16), HexDigit(c % 16)>>

IsCont(b, k) == k <= Len(b) /\ b[k] >= 128 /\ b[k] <= 191

\* the size of the valid UTF-8 encoding that starts at byte k of b, 0 when
\* there is none (utf8.DecodeRuneInString returning RuneError, 1)
Utf8Size(b, k) ==
    LET c == b[k]
        second(lo, hi) == k + 1 <= Len(b) /\ b[k + 1] >= lo /\ b[k + 1] <= hi
    IN  IF c >= 194 /\ c <= 223 THEN (IF IsCont(b, k + 1) THEN 2 ELSE 0)
        ELSE IF c >= 224 /\ c <= 239
        THEN (IF /\ second(IF c = 224 THEN 160 ELSE 128, IF c = 237 THEN 159 ELSE 191)
                 /\ IsCont(b, k + 2)
              THEN 3 ELSE 0)
        ELSE IF c >= 240 /\ c <= 244
        THEN (IF /\ second(IF c = 240 THEN 144 ELSE 128, IF c = 244 THEN 143 ELSE 191)
                 /\ IsCont(b, k + 2) /\ IsCont(b, k + 3)
              THEN 4 ELSE 0)
        ELSE 0

\* the body of a JSON string for the Go string b, from byte k on
RECURSIVE JsonEscapeFrom(_, _)
JsonEscapeFrom(b, k) ==
    IF k > Len(b) THEN <<>>
    ELSE LET c == b[k]
         IN  IF c < 128
             THEN (IF HtmlSafe(c) THEN <<c>> ELSE EscapeAscii(c)) \o JsonEscapeFrom(b, k + 1)
             ELSE LET n == Utf8Size(b, k)
                  IN  IF n = 0
                      THEN <<92, 117, 102, 102, 102, 100>> \o JsonEscapeFrom(b, k + 1)
                      ELSE IF n = 3 /\ c = 226 /\ b[k + 1] = 128 /\ b[k + 2] \in {168, 169}
                      THEN <<92, 117, 50, 48, 50, HexDigit(b[k + 2] - 160)>>
                           \o JsonEscapeFrom(b, k + 3)
                      ELSE SubSeq(b, k, k + n - 1) \o JsonEscapeFrom(b, k + n)

JsonString(b) == <<34>> \o JsonEscapeFrom(b, 1) \o <<34>>

\* byte-wise order of Go strings
LexLess(a, b) ==
    \E k \in 1..Len(b) :
        /\ \A j \in 1..(k - 1) : j <= Len(a) /\ a[j] = b[j]
        /\ (k > Len(a) \/ a[k] < b[k])

\* the keys of a map in the order json.Marshal writes them
RECURSIVE SortedKeys(_)
SortedKeys(S) ==
    IF S = {} THEN <<>>
    ELSE LET m == CHOOSE x \in S : \A y \in S : y = x \/ LexLess(x, y)
         IN  <<m>> \o SortedKeys(S \ {m})

\* the members of a JSON object or array, comma separated
RECURSIVE JsonJoin(_, _)
JsonJoin(parts, k) ==
    IF k > Len(parts) THEN <<>>
    ELSE (IF k > 1 THEN <<44>> ELSE <<>>) \o parts[k] \o JsonJoin(parts, k + 1)

\* json.Marshal of a map[string]string
MarshalStringMap(m) ==
    LET keys == SortedKeys(DOMAIN m)
        parts == [k \in 1..Len(keys) |->
                    JsonString(keys[k]) \o <<58>> \o JsonString(m[keys[k]])]
    IN  <<123>> \o JsonJoin(parts, 1) \o <<125>>

\* json.Marshal of a map[string]struct{}
MarshalSet(keySet) ==
    LET keys == SortedKeys(keySet)
        parts == [k \in 1..Len(keys) |-> JsonString(keys[k]) \o <<58, 123, 125>>]
    IN  <<123>> \o JsonJoin(parts, 1) \o <<125>>

\* a mutant: the slots start as empty strings
EmptyStringElem == [isNil |-> FALSE, str |-> <<>>]

\* an element of resultArr: nil, or a string
NilElem == [isNil |-> TRUE, str |-> <<>>]

StrElem(b) == [isNil |-> FALSE, str |-> b]

\* json.Marshal of a []any of strings and nils
MarshalArray(arr) ==
    LET parts == [k \in 1..Len(arr) |->
                    IF arr[k].isNil THEN <<110, 117, 108, 108>> ELSE JsonString(arr[k].str)]
    IN  <<91>> \o JsonJoin(parts, 1) \o <<93>>

\* a mutant: a key already in the map keeps its value
MapPutIfAbsent(m, key, val) ==
    [k \in DOMAIN m \cup {key} |-> IF k \in DOMAIN m THEN m[k] ELSE val]

\* m[key] = val on a Go map
MapPut(m, key, val) == [k \in DOMAIN m \cup {key} |-> IF k = key THEN val ELSE m[k]]

EmptyMap == <<>>

----------------------------------------------------------------------------
(* The value dispatcher and the composite decoders. d is the nesting depth *)
(* of the composite whose decoder is running (1 for the top-level object). *)

Text(str) ==
    CASE str = "true"  -> <<116, 114, 117, 101>>
      [] str = "false" -> <<102, 97, 108, 115, 101>>

\* the tags the switch of deserializeNext names
SwitchTags ==
    {tagInt32, tagString, tagStringObject, tagBoolean, tagDateObject, tagObjectObject,
     tagArrayObject, tagMapObject, tagSetObject, tagNull, tagUndefined}

\* the default case: at or above tagFloatMax the tag is unknown
DefaultIsUnknown(itemTag) == ~U32Less(itemTag, tagFloatMax)

\* a mutant: the default case renders every tag as a double
DefaultNeverUnknown(itemTag) == FALSE

UnknownTag(itemTag) == DefaultIsUnknown(itemTag)

\* what case tagNull, tagUndefined returns: the nil slice
NilSlice == <<>>

\* a mutant: the text null
NullAsText == <<110, 117, 108, 108>>

NullValue == NilSlice

\* nextObjTag != tagString, negated
KeyIsString(nextObjTag) == nextObjTag = tagString

\* a mutant: a StringObject accepted as a key
KeyIsAnyString(nextObjTag) == nextObjTag \in {tagString, tagStringObject}

KeyTagOk(nextObjTag) == KeyIsString(nextObjTag)

\* case tagString of the switch of deserializeArray
CaseTagString(itemTag) == itemTag = tagString

\* a mutant: a StringObject accepted as an element
CaseAnyString(itemTag) == itemTag \in {tagString, tagStringObject}

ElementIsString(itemTag) == CaseTagString(itemTag)

RECURSIVE deserializeObjectLoop(_, _, _, _)
RECURSIVE deserializeNext(_, _, _, _, _)
RECURSIVE deserializeArrayLoop(_, _, _, _, _)
RECURSIVE deserializeMapLoop(_, _, _, _)
RECURSIVE deserializeSetLoop(_, _, _, _)

deserializeObject(s, st, d) == deserializeObjectLoop(s, Enter(st, d), d, EmptyMap)

deserializeNestedObject(s, st, d) ==
    LET marshalled(nestedObj) ==
            IF nestedObj.err # NilErr
            THEN Fail(WrapErr("deserializing nested object", nestedObj.err), nestedObj.st)
            ELSE Ok(MarshalStringMap(nestedObj.val), nestedObj.st)
    IN  marshalled(deserializeObject(s, st, d))

deserializeArray(arrayLength, s, st, d) ==
    deserializeArrayLoop(arrayLength, s, Enter(st, d), d,
                         [k \in 1..IntOf(arrayLength) |-> NilElem])

deserializeMap(s, st, d) == deserializeMapLoop(s, Enter(st, d), d, EmptyMap)

\* a mutant: a set read as a map, a value pair after each element
deserializeSetWithValues(s, st, d) == deserializeMapLoop(s, Enter(st, d), d, EmptyMap)

deserializeSet(s, st, d) == deserializeSetLoop(s, Enter(st, d), d, {})

\* one iteration of the loop of deserializeObject, and the ones after it
deserializeObjectLoop(s, st, d, resultObj) ==
    LET stored(nextKey, valDeserialized) ==
            IF valDeserialized.err # NilErr
            THEN Fail(WrapErr("deserializing value for key", valDeserialized.err),
                      valDeserialized.st)
            ELSE deserializeObjectLoop(s, valDeserialized.st, d,
                     MapPut(resultObj, nextKey.val, valDeserialized.val))
        value(nextKey, valPair) ==
            IF valPair.err # NilErr
            THEN Fail(WrapErr("reading next pair for value in object", valPair.err),
                      valPair.st)
            ELSE stored(nextKey,
                        deserializeNext(valPair.tag, valPair.data, s, valPair.st, d))
        key(nextKey) ==
            IF nextKey.err # NilErr
            THEN Fail(WrapErr("reading string for tag", nextKey.err), nextKey.st)
            ELSE value(nextKey, ReadPair(s, nextKey.st, "object value"))
        pair(next) ==
            IF next.err # NilErr
            THEN Fail(WrapErr("reading next pair in object", next.err), next.st)
            ELSE IF next.tag = tagEndOfKeys THEN Ok(resultObj, next.st)
            ELSE IF ~KeyTagOk(next.tag) THEN Fail(<<"unsupported key type">>, next.st)
            ELSE key(deserializeString(next.data, s, next.st))
    IN  pair(ReadPair(s, st, "object key"))

deserializeNext(itemTag, itemData, s, st, d) ==
    LET date(next) ==
            IF next.err # NilErr
            THEN Fail(WrapErr("reading next pair as date object", next.err), next.st)
            ELSE Ok(FormatUint(U64(next.tag, next.data)), next.st)
    IN  CASE itemTag = tagInt32 -> Ok(ItoaOfUint32(itemData), st)
          [] itemTag \in {tagString, tagStringObject} -> deserializeString(itemData, s, st)
          [] itemTag = tagBoolean ->
                Ok(IF itemData # U32Zero THEN Text("true") ELSE Text("false"), st)
          [] itemTag = tagDateObject -> date(ReadPair(s, st, "date"))
          [] itemTag = tagObjectObject -> deserializeNestedObject(s, st, d + 1)
          [] itemTag = tagArrayObject -> deserializeArray(itemData, s, st, d + 1)
          [] itemTag = tagMapObject -> deserializeMap(s, st, d + 1)
          [] itemTag = tagSetObject -> deserializeSet(s, st, d + 1)
          [] itemTag \in {tagNull, tagUndefined} -> Ok(NullValue, st)
          [] itemTag \notin SwitchTags ->
                IF UnknownTag(itemTag)
                THEN Fail(<<"unknown tag type">>, st)
                ELSE Ok(FormatUint(U64(itemTag, itemData)), st)

\* one iteration of the loop of deserializeArray, and the ones after it.
\* resultArr[idx] = ... with idx outside the slice panics.
deserializeArrayLoop(arrayLength, s, st, d, resultArr) ==
    LET store(idx, elem, ctx) ==
            IF elem.err # NilErr THEN Fail(WrapErr(ctx, elem.err), elem.st)
            ELSE IF U32Less(idx, arrayLength)
            THEN deserializeArrayLoop(arrayLength, s, elem.st, d,
                     [resultArr EXCEPT ![IntOf(idx) + 1] = StrElem(elem.val)])
            ELSE Fail(<<"panic", "index out of range">>, elem.st)
        element(idx, item) ==
            IF item.err # NilErr
            THEN Fail(WrapErr("reading item at index in array", item.err), item.st)
            ELSE IF item.tag = tagObjectObject
            THEN store(idx, deserializeNestedObject(s, item.st, d + 1),
                       "reading object at index in array")
            ELSE IF ElementIsString(item.tag)
            THEN store(idx, deserializeString(item.data, s, item.st),
                       "reading string at index in array")
            ELSE Fail(<<"cannot process item at index in array: unsupported tag type">>,
                      item.st)
        pair(index) ==
            IF index.err # NilErr
            THEN Fail(WrapErr("reading next index in array", index.err), index.st)
            ELSE IF index.tag = tagEndOfKeys THEN Ok(MarshalArray(resultArr), index.st)
            ELSE element(index.data, ReadPair(s, index.st, "array item"))
    IN  pair(ReadPair(s, st, "array index"))

\* a mutant: the rest of the value is decoded before the rest of the key
deserializeMapLoopValueFirst(s, st, d, mapObject) ==
    LET stored(keyBytes, valBytes) ==
            IF keyBytes.err # NilErr
            THEN Fail(WrapErr("deserializing key in map", keyBytes.err), keyBytes.st)
            ELSE deserializeMapLoop(s, keyBytes.st, d,
                     MapPut(mapObject, keyBytes.val, valBytes.val))
        value(key, valBytes) ==
            IF valBytes.err # NilErr
            THEN Fail(WrapErr("deserializing value in map for key", valBytes.err),
                      valBytes.st)
            ELSE stored(deserializeNext(key.tag, key.data, s, valBytes.st, d), valBytes)
        both(key, val) ==
            IF val.err # NilErr
            THEN Fail(WrapErr("reading next pair for value in map", val.err), val.st)
            ELSE value(key, deserializeNext(val.tag, val.data, s, val.st, d))
        pair(key) ==
            IF key.err # NilErr
            THEN Fail(WrapErr("reading next pair for key in map", key.err), key.st)
            ELSE IF key.tag = tagEndOfKeys THEN Ok(MarshalStringMap(mapObject), key.st)
            ELSE both(key, ReadPair(s, key.st, "map value"))
    IN  pair(ReadPair(s, st, "map key"))

\* one iteration of the loop of deserializeMap, and the ones after it
deserializeMapLoop(s, st, d, mapObject) ==
    LET stored(keyBytes, valBytes) ==
            IF valBytes.err # NilErr
            THEN Fail(WrapErr("deserializing value in map for key", valBytes.err),
                      valBytes.st)
            ELSE deserializeMapLoop(s, valBytes.st, d,
                     MapPut(mapObject, keyBytes.val, valBytes.val))
        value(val, keyBytes) ==
            IF keyBytes.err # NilErr
            THEN Fail(WrapErr("deserializing key in map", keyBytes.err), keyBytes.st)
            ELSE stored(keyBytes, deserializeNext(val.tag, val.data, s, keyBytes.st, d))
        both(key, val) ==
            IF val.err # NilErr
            THEN Fail(WrapErr("reading next pair for value in map", val.err), val.st)
            ELSE value(val, deserializeNext(key.tag, key.data, s, val.st, d))
        pair(key) ==
            IF key.err # NilErr
            THEN Fail(WrapErr("reading next pair for key in map", key.err), key.st)
            ELSE IF key.tag = tagEndOfKeys THEN Ok(MarshalStringMap(mapObject), key.st)
            ELSE both(key, ReadPair(s, key.st, "map value"))
    IN  pair(ReadPair(s, st, "map key"))

\* one iteration of the loop of deserializeSet, and the ones after it
deserializeSetLoop(s, st, d, setObject) ==
    LET stored(keyBytes) ==
            IF keyBytes.err # NilErr
            THEN Fail(WrapErr("deserializing key in map", keyBytes.err), keyBytes.st)
            ELSE deserializeSetLoop(s, keyBytes.st, d, setObject \cup {keyBytes.val})
        pair(key) ==
            IF key.err # NilErr
            THEN Fail(WrapErr("reading next pair for key in set", key.err), key.st)
            ELSE IF key.tag = tagEndOfKeys THEN Ok(MarshalSet(setObject), key.st)
            ELSE stored(deserializeNext(key.tag, key.data, s, key.st, d))
    IN  pair(ReadPair(s, st, "set key"))

----------------------------------------------------------------------------
(* The top-level driver *)

DataColumn == "data"

\* what deserializeFirefox returns: the mapping (obj, with isNil for the nil
\* map), the error, and where it left the reader it made
Returned(obj, isNil, err, st) == [obj |-> obj, isNil |-> isNil, err |-> err, st |-> st]

NoReader == St(0, <<>>, 0)

HeaderOk(firstTag) == firstTag = tagHeader

\* a mutant: any first pair accepted
HeaderUnchecked(firstTag) == TRUE

IsHeader(firstTag) == HeaderOk(firstTag)

\* data, ok := row["data"]
LookupData(r) ==
    IF DataColumn \in DOMAIN r
    THEN [data |-> r[DataColumn], ok |-> TRUE]
    ELSE [data |-> <<>>, ok |-> FALSE]

\* a mutant: without the data column, whatever column the row has is read
LookupAnyColumn(r) ==
    IF DataColumn \in DOMAIN r THEN [data |-> r[DataColumn], ok |-> TRUE]
    ELSE IF DOMAIN r # {} THEN [data |-> r[CHOOSE c \in DOMAIN r : TRUE], ok |-> TRUE]
    ELSE [data |-> <<>>, ok |-> FALSE]

RowLookup(r) == LookupData(r)

deserializeFirefox(r) ==
    LET entries(resultObj) ==
            IF resultObj.err # NilErr
            THEN Returned(EmptyMap, TRUE,
                          WrapErr("reading top-level object", resultObj.err), resultObj.st)
            ELSE Returned(resultObj.val, FALSE, NilErr, resultObj.st)
        top(data, object) ==
            IF object.err # NilErr
            THEN Returned(EmptyMap, TRUE,
                          WrapErr("reading top-level object tag", object.err), object.st)
            ELSE IF object.tag # tagObjectObject
            THEN Returned(EmptyMap, TRUE, <<"object not found after header">>, object.st)
            ELSE entries(deserializeObject(data, object.st, 1))
        header(data, first) ==
            IF first.err # NilErr
            THEN Returned(EmptyMap, TRUE, WrapErr("reading header pair", first.err), first.st)
            ELSE IF ~IsHeader(first.tag)
            THEN Returned(EmptyMap, TRUE, <<"unknown header tag">>, first.st)
            ELSE top(data, ReadPair(data, first.st, "top-level object"))
        read(data) == header(data, ReadPair(data, NoReader, "header"))
        lookup(found) ==
            IF ~found.ok
            THEN Returned(EmptyMap, TRUE, <<"row missing top-level data key">>, NoReader)
            ELSE read(found.data)
    IN  lookup(RowLookup(r))

----------------------------------------------------------------------------
(* The wire format, written: structured-clone trees and their encoding.    *)
(* A tree node is a record: kind k, tag t and data n of its pair (of its   *)
(* second pair for a date), body bytes b of a string, entries kids of a    *)
(* composite (each a key node and a value node).                           *)

Node(k, tg, n, b, kids) == [k |-> k, t |-> tg, n |-> n, b |-> b, kids |-> kids]

Entry(key, val) == [key |-> key, val |-> val]

NoNode == Node("none", U32Zero, U32Zero, <<>>, <<>>)

Int32Node(n) == Node("int", tagInt32, U32(0, n), <<>>, <<>>)

BoolNode(n) == Node("bool", tagBoolean, U32(0, n), <<>>, <<>>)

BoolObjNode(n) == Node("boolobj", tagBooleanObject, U32(0, n), <<>>, <<>>)

NullNode == Node("null", tagNull, U32Zero, <<>>, <<>>)

UndefNode == Node("undef", tagUndefined, U32Zero, <<>>, <<>>)

DoubleNode(hi, lo) == Node("double", hi, lo, <<>>, <<>>)

DateNode(hi, lo) == Node("date", hi, lo, <<>>, <<>>)

UnknownNode(tg) == Node("unknown", tg, U32Zero, <<>>, <<>>)

\* an ASCII string: flag bit set, length in bytes
AsciiNode(b) == Node("str", tagString, U32(32768, Len(b)), b, <<>>)

\* a UTF-16 string of the given little-endian bytes: length in units
WideNode(b) == Node("str", tagString, U32(0, Len(b) \div 2), b, <<>>)

StrObjNode(b) == Node("str", tagStringObject, U32(32768, Len(b)), b, <<>>)

ObjNode(kids) == Node("obj", tagObjectObject, U32Zero, <<>>, kids)

ArrNode(n, kids) == Node("arr", tagArrayObject, U32(0, n), <<>>, kids)

MapNode(kids) == Node("map", tagMapObject, U32Zero, <<>>, kids)

SetNode(kids) == Node("set", tagSetObject, U32Zero, <<>>, kids)

\* the 8 bytes of a pair: one little-endian 64-bit word, tag in the high half
PairWord(tg, n) ==
    <<n[2] % 256, n[2] \div 256, n[1] % 256, n[1] \div 256,
      tg[2] % 256, tg[2] \div 256, tg[1] % 256, tg[1] \div 256>>

EndWord == PairWord(tagEndOfKeys, U32Zero)

\* string body padded to the next word with the first bytes of pad
Padded(b, pad) == b \o [k \in 1..((8 - (Len(b) % 8)) % 8) |-> pad[k]]

ZeroPad == <<0, 0, 0, 0, 0, 0, 0>>

RECURSIVE EncodeTail(_, _)
RECURSIVE EncodeKids(_, _, _, _)

\* the first pair of a node
EncodeHead(v) ==
    IF v.k = "date" THEN PairWord(tagDateObject, U32Zero) ELSE PairWord(v.t, v.n)

\* what follows the first pair of a node
EncodeTail(v, pad) ==
    CASE v.k = "date" -> PairWord(v.t, v.n)
      [] v.k = "str" -> Padded(v.b, pad)
      [] v.k \in {"obj", "arr", "map", "set"} -> EncodeKids(v.k, v.kids, 1, pad) \o EndWord
      [] OTHER -> <<>>

Encode(v, pad) == EncodeHead(v) \o EncodeTail(v, pad)

\* the entries of a composite: key then value; in a map both first pairs,
\* then the rest of the key, then the rest of the value; in a set the
\* element alone
EncodeKids(kind, kids, k, pad) ==
    IF k > Len(kids) THEN <<>>
    ELSE LET e == kids[k]
             one == CASE kind = "map" -> EncodeHead(e.key) \o EncodeHead(e.val)
                                         \o EncodeTail(e.key, pad) \o EncodeTail(e.val, pad)
                      [] kind = "set" -> Encode(e.key, pad)
                      [] OTHER -> Encode(e.key, pad) \o Encode(e.val, pad)
         IN  one \o EncodeKids(kind, kids, k + 1, pad)

\* a blob: the header pair, then the top-level object
Blob(headerData, top, pad) == PairWord(tagHeader, headerData) \o Encode(top, pad)

----------------------------------------------------------------------------
(* The inputs of the model: trees up to a nesting bound, encoded, and      *)
(* blobs derived from them (cut short, followed by more bytes, with other  *)
(* first and second pairs, in rows with other columns).                    *)

KeyA == AsciiNode(<<97>>)

KeyB == AsciiNode(<<98>>)

KeyX == AsciiNode(<<120>>)

\* "k" in UTF-16LE
KeyWide == WideNode(<<107, 0>>)

\* a tag at or above tagFloatMax that the format does not define
tagUndefined6 == U32(\hffff, \h0006)

Scalars ==
    { Int32Node(42), BoolNode(1), BoolNode(0), BoolObjNode(1), NullNode, UndefNode,
      DoubleNode(U32(\h4045, 0), U32Zero), DateNode(U32(\h4278, \h9abc), U32(1, 2)),
      AsciiNode(<<104, 105>>), WideNode(<<177, 3, 178, 3, 179, 3>>),
      StrObjNode(<<115>>), UnknownNode(tagUndefined6) }

\* the composites without entries, and an array filled out of order
EmptyComposites ==
    { ObjNode(<<>>), ArrNode(2, <<>>), MapNode(<<>>), SetNode(<<>>),
      ArrNode(2, <<Entry(Int32Node(1), AsciiNode(<<104, 105>>)),
                   Entry(Int32Node(0), ObjNode(<<>>))>>) }

Leaves == Scalars \cup EmptyComposites

\* the ways a composite holds one value
Wrappers == {"object", "array", "map value", "map key", "set"}

Wrapped(w, v) ==
    CASE w = "object"    -> ObjNode(<<Entry(KeyX, v)>>)
      [] w = "array"     -> ArrNode(2, <<Entry(Int32Node(1), v)>>)
      [] w = "map value" -> MapNode(<<Entry(KeyX, v)>>)
      [] w = "map key"   -> MapNode(<<Entry(v, Int32Node(42))>>)
      [] w = "set"       -> SetNode(<<Entry(v, NoNode)>>)

\* the value v inside the composites ws, outermost first
RECURSIVE WrapAll(_, _, _)
WrapAll(ws, k, v) == IF k > Len(ws) THEN v ELSE Wrapped(ws[k], WrapAll(ws, k + 1, v))

\* what may follow the first entry of a top-level object
SecondEntries ==
    { Entry(k, w) : k \in {KeyA, KeyB},
                    w \in {Int32Node(42), NullNode, UndefNode, AsciiNode(<<104, 105>>)} }

TinyTops ==
    {ObjNode(<<>>), ObjNode(<<Entry(KeyA, Int32Node(42))>>),
     ObjNode(<<Entry(KeyA, NullNode), Entry(KeyB, AsciiNode(<<104, 105>>))>>)}

FirstTags == {tagHeader, tagObjectObject, tagNull, U32Zero}

HeaderDatas == {U32Zero, U32(\hdead, \hbeef)}

SecondTags == {tagObjectObject, tagArrayObject, tagEndOfKeys, tagHeader}

OtherColumn == "key"

\* a chain of n sets, each the only element of the one around it, in the
\* value of key "a", the stream ending inside the innermost
RECURSIVE SetChain(_)
SetChain(n) ==
    IF n = 0 THEN <<>> ELSE PairWord(tagSetObject, U32Zero) \o SetChain(n - 1)

DeepBlob(n) ==
    PairWord(tagHeader, U32Zero) \o PairWord(tagObjectObject, U32Zero)
    \o Encode(KeyA, ZeroPad) \o SetChain(n)

Gen(family, top, headerData, blob) ==
    [family |-> family, top |-> top, headerData |-> headerData, blob |-> blob]

BlobOf(top) == Blob(U32Zero, top, ZeroPad)

\* a top-level object of none, one or two entries, the first value nested
\* in up to MaxNest composites
InitTree ==
    \/ row = [data |-> BlobOf(ObjNode(<<>>))]
       /\ gen = Gen("tree", ObjNode(<<>>), U32Zero, BlobOf(ObjNode(<<>>)))
    \/ \E n \in 0..MaxNest : \E ws \in [1..n -> Wrappers] : \E leaf \in Leaves :
       \E more \in {<<>>} \cup {<<e>> : e \in SecondEntries} :
         LET top == ObjNode(<<Entry(KeyA, WrapAll(ws, 1, leaf))>> \o more)
         IN  row = [data |-> BlobOf(top)] /\ gen = Gen("tree", top, U32Zero, BlobOf(top))

\* the first entry alone, under either kind of key
SmallTop(key, w, leaf) == ObjNode(<<Entry(key, WrapAll(w, 1, leaf))>>)

\* a blob followed by more bytes
InitTrail ==
    \E key \in {KeyA, KeyWide} : \E n \in 0..1 : \E ws \in [1..n -> Wrappers] :
    \E leaf \in Leaves : \E trail \in {EndWord, <<1, 2, 3>>} :
      LET top == SmallTop(key, ws, leaf)
      IN  row = [data |-> BlobOf(top) \o trail]
          /\ gen = Gen("trail", top, U32Zero, BlobOf(top))

\* a blob cut short at any byte
InitCut ==
    \E key \in {KeyA, KeyWide} : \E n \in 0..1 : \E ws \in [1..n -> Wrappers] :
    \E leaf \in Leaves :
      LET top == SmallTop(key, ws, leaf)
      IN  \E c \in 0..(Len(BlobOf(top)) - 1) :
            row = [data |-> SubSeq(BlobOf(top), 1, c)]
            /\ gen = Gen("cut", top, U32Zero, BlobOf(top))

\* padding bytes of other values than zero
PadPatterns ==
    { <<255, 255, 255, 255, 255, 255, 255>>, <<1, 2, 3, 4, 5, 6, 7>>,
      <<19, 0, 255, 255, 4, 0, 128>> }

\* a string of n characters, ASCII or UTF-16
StringOfLen(n, wide) ==
    IF wide THEN WideNode([k \in 1..(2 * n) |-> IF k % 2 = 1 THEN 96 + ((k + 1) \div 2) ELSE 0])
    ELSE AsciiNode([k \in 1..n |-> 96 + k])

\* blobs whose strings are padded with other bytes than zero: strings of
\* every length up to MaxStrLen as key and as value, and the small objects
InitPad ==
    \E pad \in PadPatterns :
      \/ \E n \in 0..MaxStrLen : \E wide \in BOOLEAN :
            LET top == ObjNode(<<Entry(StringOfLen(n, wide), StringOfLen(n, ~wide)),
                                 Entry(KeyB, StringOfLen(n, wide))>>)
            IN  row = [data |-> Blob(U32Zero, top, pad)]
                /\ gen = Gen("pad", top, U32Zero, BlobOf(top))
      \/ \E key \in {KeyA, KeyWide} : \E n \in 0..1 : \E ws \in [1..n -> Wrappers] :
         \E leaf \in Leaves :
            LET top == SmallTop(key, ws, leaf)
            IN  row = [data |-> Blob(U32Zero, top, pad)]
                /\ gen = Gen("pad", top, U32Zero, BlobOf(top))

\* any first and second pair before the entries of an object
InitDriver ==
    \E first \in FirstTags : \E hd \in HeaderDatas : \E second \in SecondTags :
    \E top \in TinyTops :
      row = [data |-> PairWord(first, hd) \o PairWord(second, U32Zero)
                      \o EncodeKids("obj", top.kids, 1, ZeroPad) \o EndWord]
      /\ gen = Gen("driver", top, hd, BlobOf(top))

\* rows with and without the data column, with and without another one
InitRow ==
    \E top \in TinyTops :
    \E r \in {<<>>, [key |-> BlobOf(top)], [data |-> BlobOf(top)]}
             \cup {[data |-> BlobOf(top), key |-> other] :
                     other \in {<<>>, <<1, 2, 3>>, BlobOf(ObjNode(<<>>))}} :
      row = r /\ gen = Gen("row", top, U32Zero, BlobOf(top))

\* composites nested to any depth up to one past the cap
InitDeep ==
    \E n \in 0..(DepthCap + 1) :
      row = [data |-> DeepBlob(n)] /\ gen = Gen("deep", NoNode, U32Zero, DeepBlob(n))

NotReturned == Returned(EmptyMap, TRUE, NilErr, NoReader)

Init ==
    /\ pc = "call"
    /\ InitTree \/ InitTrail \/ InitCut \/ InitPad \/ InitDriver \/ InitRow \/ InitDeep
    /\ srcReader = [s |-> <<>>, i |-> 0]
    /\ args = <<>>
    /\ ret = NotReturned
    /\ pd = ZeroDetector
    /\ now = 0

\* a call of deserializeFirefox(ctx, slogger, row); srcReader is the reader
\* the call made, where the call left it
DeserializeFirefox ==
    /\ pc = "call"
    /\ ret' = deserializeFirefox(row)
    /\ srcReader' = [s |-> RowLookup(row).data, i |-> ret'.st.i]
    /\ pc' = "done"
    /\ UNCHANGED <<row, args, gen, pd, now>>

Next == DeserializeFirefox

Spec == Init /\ [][Next]_vars

----------------------------------------------------------------------------
(* Specification PairSpec: nextPair applied to a reader over any short     *)
(* byte stream, at any position of it.                                     *)

PairByteSamples == {0, 1, 255}

RECURSIVE SeqsUpTo(_, _)
SeqsUpTo(S, n) ==
    IF n = 0 THEN {<<>>}
    ELSE LET shorter == SeqsUpTo(S, n - 1)
         IN  shorter \cup {Append(q, b) : q \in {p \in shorter : Len(p) = n - 1}, b \in S}

NoRow == <<>>

PairInit ==
    /\ pc = "call"
    /\ row = NoRow
    /\ \E s \in SeqsUpTo(PairByteSamples, MaxPairStream) :
         \E i \in 0..Min(1, Len(s)) :
           srcReader = [s |-> s, i |-> i] /\ gen = [start |-> i]
    /\ args = <<>>
    /\ ret = <<>>
    /\ pd = ZeroDetector
    /\ now = 0

CallNextPair ==
    /\ pc = "call"
    /\ LET r == nextPair(srcReader.s, srcReader.i)
       IN  /\ ret' = [tag |-> r.tag, data |-> r.data, err |-> r.err]
           /\ srcReader' = [srcReader EXCEPT !.i = r.i]
    /\ pc' = "done"
    /\ UNCHANGED <<row, args, gen, pd, now>>

PairNext == CallNextPair

PairSpec == PairInit /\ [][PairNext]_vars

----------------------------------------------------------------------------
(* Specification ValueSpec: deserializeNext applied to any pair of a       *)
(* sample of tags and data words, over a reader at the start of a short    *)
(* stream.                                                                 *)

\* high halves of the tag: doubles below tagFloatMax, and from it upwards
TagHighs == {0, 1, \h4045, \h7fff, \h8000, \hffef, \hfff0, \hfff1, \hffff}

\* the tags of the format and their neighbours, and tags under every high half
SampleTags ==
    {U32(\hffff, tl) : tl \in 0..20} \cup {U32(th, tl) : th \in TagHighs, tl \in {0, 1, \hffff}}

DataHalves == {0, 1, \h8000, \hffff}

\* what remains in the reader after the pair
ValueStreams ==
    { <<>>, <<1, 2, 3>>, EndWord, PairWord(U32(\h4278, \h9abc), U32(1, 2)) \o EndWord,
      <<104, 105, 0, 0, 0, 0, 0, 0>> \o EndWord }

\* an array of a length that a slice can have
SliceLength(itemTag, itemData) ==
    itemTag = tagArrayObject => itemData[1] = 0 /\ itemData[2] <= 1

ValueInit ==
    /\ pc = "call"
    /\ row = NoRow
    /\ \E itemTag \in SampleTags, dh \in DataHalves, dl \in DataHalves :
         /\ SliceLength(itemTag, U32(dh, dl))
         /\ args = [itemTag |-> itemTag, itemData |-> U32(dh, dl)]
    /\ \E s \in ValueStreams : srcReader = [s |-> s, i |-> 0]
    /\ gen = [start |-> 0]
    /\ ret = <<>>
    /\ pd = ZeroDetector
    /\ now = 0

CallDeserializeNext ==
    /\ pc = "call"
    /\ LET r == deserializeNext(args.itemTag, args.itemData, srcReader.s,
                                St(srcReader.i, <<>>, 0), 0)
       IN  /\ ret' = [val |-> r.val, err |-> r.err]
           /\ srcReader' = [srcReader EXCEPT !.i = r.st.i]
    /\ pc' = "done"
    /\ UNCHANGED <<row, args, gen, pd, now>>

ValueNext == CallDeserializeNext

ValueSpec == ValueInit /\ [][ValueNext]_vars

----------------------------------------------------------------------------
(* nextPair (C2) *)

\* the k-th byte, from 0, that the call found in the reader
PairByte(k) == srcReader.s[gen.start + 1 + k]

\* C2: a call of nextPair with at least 8 bytes remaining returns no error,
\* leaves the reader 8 bytes further, and returns tag = b7<<24 | b6<<16 |
\* b5<<8 | b4 and data = b3<<24 | b2<<16 | b1<<8 | b0 of the bytes b0..b7 it
\* read; with fewer than 8 bytes remaining it returns an error and the zero
\* pair.
C2_NextPairLittleEndianWord ==
    pc = "done" =>
        IF Len(srcReader.s) - gen.start >= 8
        THEN /\ ret.err = NilErr
             /\ srcReader.i = gen.start + 8
             /\ ret.tag = U32(PairByte(7) * 256 + PairByte(6),
                              PairByte(5) * 256 + PairByte(4))
             /\ ret.data = U32(PairByte(3) * 256 + PairByte(2),
                               PairByte(1) * 256 + PairByte(0))
        ELSE /\ ret.err # NilErr
             /\ ret.tag = U32Zero
             /\ ret.data = U32Zero

\* a pair read from the second byte of a 9-byte stream, all 8 bytes of it
\* telling the two readings of the word apart
C2_Witness ==
    /\ pc = "done"
    /\ gen.start = 1
    /\ Len(srcReader.s) = 9
    /\ SubSeq(srcReader.s, 2, 9) = <<255, 255, 0, 1, 1, 0, 1, 255>>
    /\ ret.err = NilErr
    /\ ret.tag = U32(\hff01, \h0001)
    /\ ret.data = U32(\h0100, \hffff)
    /\ srcReader.i = 9

----------------------------------------------------------------------------
(* The value dispatcher (C4, C5) *)

\* C4: for the Boolean tag and for the BooleanObject tag alike, the
\* dispatcher returns "true" when data is not 0 and "false" otherwise,
\* without error and without reading from the stream.
C4_BooleanObjectAsBoolean ==
    pc = "done" /\ args.itemTag \in {tagBoolean, tagBooleanObject} =>
        /\ ret.err = NilErr
        /\ ret.val = IF args.itemData # U32Zero THEN Text("true") ELSE Text("false")
        /\ srcReader.i = gen.start

\* the limb above the k-th of limbs * 10 + d receives this carry
RECURSIVE CarryInto(_, _, _)
CarryInto(limbs, d, k) ==
    IF k = 4 THEN d ELSE (limbs[k + 1] * 10 + CarryInto(limbs, d, k + 1)) \div 65536

\* limbs * 10 + d, modulo 2^64
TimesTenPlus(limbs, d) == [k \in 1..4 |-> (limbs[k] * 10 + CarryInto(limbs, d, k)) % 65536]

\* the number the first n decimal digits of text denote
RECURSIVE ValueOfDigits(_, _)
ValueOfDigits(text, n) ==
    IF n = 0 THEN <<0, 0, 0, 0>>
    ELSE TimesTenPlus(ValueOfDigits(text, n - 1), text[n] - 48)

\* text is the decimal text of the 64-bit number limbs: digits, at most 20
\* of them, no leading zero, denoting the number
IsDecimalOf(text, limbs) ==
    /\ Len(text) \in 1..20
    /\ \A k \in 1..Len(text) : text[k] \in 48..57
    /\ Len(text) > 1 => text[1] # 48
    /\ ValueOfDigits(text, Len(text)) = limbs

\* the 64-bit number u of which the pair under call is (u >> 32, u & 0xffffffff)
PairAsU64 == <<args.itemTag[1], args.itemTag[2], args.itemData[1], args.itemData[2]>>

----------------------------------------------------------------------------
(* What the claims about deserializeFirefox say of a call: the tree that   *)
(* was encoded, the bytes handed over, the reads the call made.            *)

Composites == {"obj", "arr", "map", "set"}

\* some node of the tree v is of one of the kinds
RECURSIVE HasKind(_, _)
HasKind(v, kinds) ==
    \/ v.k \in kinds
    \/ \E k \in 1..Len(v.kids) :
         HasKind(v.kids[k].key, kinds) \/ HasKind(v.kids[k].val, kinds)

\* the tree v is one the format defines: object keys are strings, array
\* elements are strings or objects at indexes below the length, every tag
\* is of the alphabet or the high word of a double
RECURSIVE ValidNode(_)
ValidEntry(v, e) ==
    CASE v.k = "obj" -> e.key.k = "str" /\ e.key.t = tagString /\ ValidNode(e.val)
      [] v.k = "arr" -> /\ e.key.k = "int" /\ U32Less(e.key.n, v.n)
                        /\ e.val.k = "obj" \/ (e.val.k = "str" /\ e.val.t = tagString)
                        /\ ValidNode(e.val)
      [] v.k = "map" -> ValidNode(e.key) /\ ValidNode(e.val)
      [] v.k = "set" -> ValidNode(e.key)

ValidNode(v) ==
    /\ v.k \notin {"unknown", "none"}
    /\ v.k = "double" => U32Less(v.t, tagFloatMax)
    /\ v.k \in Composites => \A k \in 1..Len(v.kids) : ValidEntry(v, v.kids[k])

\* the bytes the call was handed, when the row has the data column
Data == row[DataColumn]

\* the call was handed the encoding of gen.top, whole
WholeTree == gen.family \in {"tree", "trail", "pad"}

\* the tag and the data of the pair at position p of s, read as the format
\* defines them: a little-endian word, the tag in its high half
TagAt(s, p) == U32(s[p + 8] * 256 + s[p + 7], s[p + 6] * 256 + s[p + 5])

DataAt(s, p) == U32(s[p + 4] * 256 + s[p + 3], s[p + 2] * 256 + s[p + 1])

----------------------------------------------------------------------------
(* Pair framing (C1) *)

\* C1: a call on bytes of a length that is a multiple of 8, a Header pair
\* followed by the encoding of a valid object tree, returns a mapping and no
\* error, and leaves the reader at the end of the tree's encoding.
C1_ValidTreeConsumedExactly ==
    pc = "done" /\ WholeTree /\ ValidNode(gen.top) /\ Len(Data) % 8 = 0 =>
        /\ ret.err = NilErr
        /\ ~ret.isNil
        /\ srcReader.i = Len(gen.blob)

\* the same of the valid trees without a BooleanObject: this much of C1 the
\* decoder does
C1_ValidTreeWithoutBooleanObject ==
    pc = "done" /\ WholeTree /\ ValidNode(gen.top) /\ Len(Data) % 8 = 0
    /\ ~HasKind(gen.top, {"boolobj"}) =>
        /\ ret.err = NilErr
        /\ ~ret.isNil
        /\ srcReader.i = Len(gen.blob)

\* a valid tree followed by one more pair, read to the end of the tree
C1_WitnessWithoutBooleanObject ==
    /\ pc = "done"
    /\ gen.family = "trail"
    /\ ValidNode(gen.top)
    /\ HasKind(gen.top, {"map"})
    /\ Len(Data) = Len(gen.blob) + 8
    /\ ret.err = NilErr
    /\ srcReader.i = Len(gen.blob)

----------------------------------------------------------------------------
(* Errors (C3) *)

\* C3: a call that fails returns the nil mapping, never one partly built;
\* and a call on the encoding of a tree with a node of an unknown tag, at
\* any depth inside objects, arrays, maps and sets, fails with an error.
C3_UnknownTagFailsTheCall ==
    pc = "done" =>
        /\ ret.err # NilErr => ret.isNil /\ ret.obj = EmptyMap
        /\ WholeTree /\ HasKind(gen.top, {"unknown"}) =>
              ret.err # NilErr /\ ~IsPanic(ret.err)

\* an unknown tag as the only element of a set in the value of a map entry,
\* the top-level object already holding nothing of it
C3_Witness ==
    /\ pc = "done"
    /\ gen.family = "tree"
    /\ Len(gen.top.kids) = 1
    /\ gen.top.kids[1].val.k = "map"
    /\ Len(gen.top.kids[1].val.kids) = 1
    /\ gen.top.kids[1].val.kids[1].val.k = "set"
    /\ Len(gen.top.kids[1].val.kids[1].val.kids) = 1
    /\ gen.top.kids[1].val.kids[1].val.kids[1].key.k = "unknown"
    /\ ret.err[Len(ret.err)] = "unknown tag type"
    /\ Len(ret.err) = 5
    /\ ret.isNil
    /\ ret.obj = EmptyMap

----------------------------------------------------------------------------
(* Padding (C6) *)

\* the character bytes of the string the k-th read of the call is of:
\* one a character in ASCII, two in UTF-16
CharBytes(k) ==
    IF ret.st.log[k][1] = "ascii string" THEN ret.st.log[k][3] ELSE 2 * ret.st.log[k][3]

\* the padding the format puts after b character bytes
PadAfter(b) == IF b % 8 # 0 THEN 8 - (b % 8) ELSE 0

\* the position of the reader after the k-th read of the call
PositionAfter(k) ==
    IF k < Len(ret.st.log) THEN ret.st.log[k + 1][2] ELSE ret.st.i

StringSites == {"ascii string", "utf16 string"}

\* C6: a string read at position p whose b character bytes and padding are
\* in the stream leaves the reader at p + b + (8 - b mod 8 when b mod 8 is not
\* 0, else 0), on an 8-byte boundary; and the call returns what it returns
\* on the same blob with every padding byte 0.
C6_PaddingSkippedAndIgnored ==
    pc = "done" /\ DataColumn \in DOMAIN row =>
        /\ \A k \in 1..Len(ret.st.log) :
              /\ ret.st.log[k][1] \in StringSites
              /\ ret.st.log[k][3] <= Len(Data)
              /\ ret.st.log[k][2] + CharBytes(k) + PadAfter(CharBytes(k)) <= Len(Data)
              => /\ PositionAfter(k) = ret.st.log[k][2] + CharBytes(k) + PadAfter(CharBytes(k))
                 /\ PositionAfter(k) % 8 = 0
        /\ gen.family = "pad" => ret = deserializeFirefox([data |-> gen.blob])

\* strings of 8 and of 16 character bytes, and ones padding of other bytes
\* than 0 follows, decoded as though it were 0
C6_Witness ==
    /\ pc = "done"
    /\ gen.family = "pad"
    /\ Data # gen.blob
    /\ ret.err = NilErr
    /\ DOMAIN ret.obj = {<<98>>, <<97, 98, 99, 100, 101, 102, 103, 104>>}
    /\ ret.obj[<<98>>] = <<97, 98, 99, 100, 101, 102, 103, 104>>
    /\ Len(ret.obj[<<97, 98, 99, 100, 101, 102, 103, 104>>]) = 8
    /\ ret.st.i = Len(Data)

----------------------------------------------------------------------------
(* Null and Undefined (C7) *)

\* the key of an entry as the mapping holds it
KeyText(e) == IF AsciiFlag(e.key.n) THEN e.key.b ELSE DecodeUTF16(e.key.b)

\* the k-th entry of the top-level object is the last of its key
LastOfKey(k) ==
    \A j \in (k + 1)..Len(gen.top.kids) : KeyText(gen.top.kids[j]) # KeyText(gen.top.kids[k])

\* C7: after a call that succeeds on the encoding of a tree, every key of
\* the top-level object is in the mapping, and a key bound to Null or
\* Undefined holds the empty value; and after the pair of a Null or an
\* Undefined read as the value of a key in any object, the next read is
\* that of the next key, at the end of that pair.
C7_NullAndUndefinedPresentAndEmpty ==
    pc = "done" /\ DataColumn \in DOMAIN row =>
        /\ WholeTree /\ ret.err = NilErr =>
              \A k \in 1..Len(gen.top.kids) :
                  /\ KeyText(gen.top.kids[k]) \in DOMAIN ret.obj
                  /\ gen.top.kids[k].val.k \in {"null", "undef"} /\ LastOfKey(k) =>
                        ret.obj[KeyText(gen.top.kids[k])] = <<>>
        /\ \A k \in 1..Len(ret.st.log) :
              /\ ret.st.log[k][1] = "object value"
              /\ ret.st.log[k][2] + 8 <= Len(Data)
              /\ TagAt(Data, ret.st.log[k][2]) \in {tagNull, tagUndefined}
              => /\ k < Len(ret.st.log)
                 /\ ret.st.log[k + 1] = <<"object key", ret.st.log[k][2] + 8>>

\* the object {a: undefined, b: "hi"}
C7_Witness ==
    /\ pc = "done"
    /\ gen.family = "tree"
    /\ Len(gen.top.kids) = 2
    /\ gen.top.kids[1].val.k = "undef"
    /\ ret.err = NilErr
    /\ DOMAIN ret.obj = {<<97>>, <<98>>}
    /\ ret.obj[<<97>>] = <<>>
    /\ ret.obj[<<98>>] = <<104, 105>>

----------------------------------------------------------------------------
(* The driver (C8, C9) *)

\* the bytes s with the data word of their first pair set to 0
WithoutHeaderData(s) == [k \in 1..Len(s) |-> IF k <= 4 THEN 0 ELSE s[k]]

\* C8: a call returns a mapping only if the tag of the first pair is Header
\* and the tag of the second is ObjectObject; a first pair of another tag
\* fails the call after that one read; a second pair of another tag fails it
\* after those two reads; and the data word of the first pair changes nothing
\* of what the call returns.
C8_HeaderThenObject ==
    pc = "done" /\ DataColumn \in DOMAIN row =>
        /\ ~ret.isNil =>
              /\ Len(Data) >= 16
              /\ TagAt(Data, 0) = tagHeader
              /\ TagAt(Data, 8) = tagObjectObject
        /\ Len(Data) >= 8 /\ TagAt(Data, 0) # tagHeader =>
              /\ ret.isNil
              /\ ret.err # NilErr
              /\ ret.st.log = << <<"header", 0>> >>
              /\ srcReader.i = 8
        /\ Len(Data) >= 16 /\ TagAt(Data, 0) = tagHeader /\ TagAt(Data, 8) # tagObjectObject =>
              /\ ret.isNil
              /\ ret.err # NilErr
              /\ ret.st.log = << <<"header", 0>>, <<"top-level object", 8>> >>
              /\ srcReader.i = 16
        /\ Len(Data) >= 8 => ret = deserializeFirefox([data |-> WithoutHeaderData(Data)])

\* a Header pair of data 0xdeadbeef, then ObjectObject, then {a: null, b: "hi"}
C8_Witness ==
    /\ pc = "done"
    /\ gen.family = "driver"
    /\ DataAt(Data, 0) = U32(\hdead, \hbeef)
    /\ TagAt(Data, 0) = tagHeader
    /\ TagAt(Data, 8) = tagObjectObject
    /\ ~ret.isNil
    /\ ret.err = NilErr
    /\ DOMAIN ret.obj = {<<97>>, <<98>>}
    /\ ret.obj[<<98>>] = <<104, 105>>

\* C9: a call on a row without the data column returns the nil mapping and
\* an error, having read nothing, whatever other columns the row has; a call
\* on a row with it returns what it returns on the row of that column alone.
C9_OnlyTheDataColumn ==
    pc = "done" =>
        IF DataColumn \in DOMAIN row
        THEN ret = deserializeFirefox([data |-> row[DataColumn]])
        ELSE /\ ret.isNil
             /\ ret.obj = EmptyMap
             /\ ret.err = <<"row missing top-level data key">>
             /\ ret.st.log = <<>>

\* a row whose only column, of another name, holds a blob that decodes
C9_Witness ==
    /\ pc = "done"
    /\ DOMAIN row = {OtherColumn}
    /\ deserializeFirefox([data |-> row[OtherColumn]]).err = NilErr
    /\ ret.isNil
    /\ ret.err = <<"row missing top-level data key">>

----------------------------------------------------------------------------
(* Nesting (C10) *)

\* C10: the nesting of composite decoders within a call never exceeds the
\* cap.
C10_NestingNeverExceedsCap == pc = "done" => ret.st.depth <= DepthCap

----------------------------------------------------------------------------
(* Specification CompositeSpec: deserializeObject, deserializeArray,       *)
(* deserializeMap and deserializeSet, each applied to a reader just after  *)
(* the pair of its composite: over the encoding of up to MaxEntries        *)
(* entries and the EndOfKeys pair, and over encodings cut short.           *)

\* most entries of a composite
MaxEntries == 2

\* most entries of a composite whose encoding is cut short
MaxCutEntries == 1

\* greatest declared length of an array
MaxArrayLen == 2

\* "a" in UTF-16LE
WideA == WideNode(<<97, 0>>)

\* the object {x: 1}
ObjX1 == ObjNode(<<Entry(KeyX, Int32Node(1))>>)

\* the object of the entries x: 1 and then x: 7
ObjX1X7 == ObjNode(<<Entry(KeyX, Int32Node(1)), Entry(KeyX, Int32Node(7))>>)

\* the set {"s"}
SetS == SetNode(<<Entry(AsciiNode(<<115>>), NoNode)>>)

Double42 == DoubleNode(U32(\h4045, 0), U32Zero)

\* entries of an object: keys in both encodings, one key several times,
\* and keys that are no String
ObjectEntries ==
    { Entry(KeyA, Int32Node(42)), Entry(KeyA, AsciiNode(<<104, 105>>)),
      Entry(KeyA, NullNode), Entry(KeyB, ObjX1), Entry(WideA, BoolNode(1)),
      Entry(KeyB, ObjX1X7),
      Entry(KeyB, UnknownNode(tagUndefined6)),
      Entry(Int32Node(0), Int32Node(42)), Entry(StrObjNode(<<115>>), Int32Node(42)),
      Entry(NullNode, Int32Node(42)), Entry(Double42, Int32Node(42)) }

\* entries of an array: strings and objects at indexes 0 to 2, and at index
\* 0 the elements of other tags
ArrayEntries ==
    { Entry(Int32Node(idx), v) :
        idx \in 0..2, v \in {AsciiNode(<<104, 105>>), AsciiNode(<<115>>), ObjNode(<<>>)} }
    \cup { Entry(Int32Node(0), v) :
             v \in {Int32Node(7), BoolNode(1), NullNode, StrObjNode(<<115>>),
                    ArrNode(0, <<>>), Double42} }

\* entries of a map: scalar and composite keys, two keys of one rendering
MapEntries ==
    { Entry(k, v) : k \in {KeyA, WideA, Int32Node(1), SetS, NullNode,
                           UnknownNode(tagUndefined6)},
                    v \in {Int32Node(42), AsciiNode(<<104, 105>>), ObjX1} }

\* elements of a set: several of one rendering
SetEntries ==
    { Entry(k, NoNode) : k \in {KeyA, WideA, Int32Node(1), AsciiNode(<<49>>), NullNode,
                                AsciiNode(<<>>), SetNode(<<>>), BoolNode(0),
                                UnknownNode(tagUndefined6)} }

CompositeKinds == {"obj", "arr", "map", "set"}

EntriesOf(kind) ==
    CASE kind = "obj" -> ObjectEntries
      [] kind = "arr" -> ArrayEntries
      [] kind = "map" -> MapEntries
      [] kind = "set" -> SetEntries

\* what follows the pair of a composite of the given entries
TailOf(kind, kids) == EncodeKids(kind, kids, 1, ZeroPad) \o EndWord

CompositeGen(family, kind, n, kids) ==
    [family |-> family, kind |-> kind, n |-> n, kids |-> kids,
     blob |-> TailOf(kind, kids), start |-> 0]

CompositeInit ==
    /\ pc = "call"
    /\ row = NoRow
    /\ \E kind \in CompositeKinds :
       \E n \in IF kind = "arr" THEN 0..MaxArrayLen ELSE {0} :
         /\ args = [fn |-> kind, arrayLength |-> U32(0, n)]
         /\ \/ \E kids \in SeqsUpTo(EntriesOf(kind), MaxEntries) :
                 /\ gen = CompositeGen("whole", kind, n, kids)
                 /\ srcReader = [s |-> TailOf(kind, kids), i |-> 0]
            \/ \E kids \in SeqsUpTo(EntriesOf(kind), MaxCutEntries) :
               \E c \in 0..(Len(TailOf(kind, kids)) - 1) :
                 /\ c % 4 = 0
                 /\ gen = CompositeGen("cut", kind, n, kids)
                 /\ srcReader = [s |-> SubSeq(TailOf(kind, kids), 1, c), i |-> 0]
    /\ ret = <<>>
    /\ pd = ZeroDetector
    /\ now = 0

\* what a call of a composite decoder leaves: its results, and the reader
CompositeDone(r) ==
    /\ ret' = r
    /\ srcReader' = [srcReader EXCEPT !.i = r.st.i]
    /\ pc' = "done"
    /\ UNCHANGED <<row, args, gen, pd, now>>

CallDeserializeObject ==
    /\ pc = "call"
    /\ args.fn = "obj"
    /\ CompositeDone(deserializeObject(srcReader.s, St(srcReader.i, <<>>, 0), 1))

CallDeserializeArray ==
    /\ pc = "call"
    /\ args.fn = "arr"
    /\ CompositeDone(deserializeArray(args.arrayLength, srcReader.s,
                                      St(srcReader.i, <<>>, 0), 1))

CallDeserializeMap ==
    /\ pc = "call"
    /\ args.fn = "map"
    /\ CompositeDone(deserializeMap(srcReader.s, St(srcReader.i, <<>>, 0), 1))

CallDeserializeSet ==
    /\ pc = "call"
    /\ args.fn = "set"
    /\ CompositeDone(deserializeSet(srcReader.s, St(srcReader.i, <<>>, 0), 1))

CompositeNext ==
    \/ CallDeserializeObject
    \/ CallDeserializeArray
    \/ CallDeserializeMap
    \/ CallDeserializeSet

CompositeSpec == CompositeInit /\ [][CompositeNext]_vars

----------------------------------------------------------------------------
(* The sentinel of a composite (C11) *)

\* the call site of the read that expects a key, an index or the sentinel
KeySite(kind) ==
    CASE kind = "obj" -> "object key"
      [] kind = "arr" -> "array index"
      [] kind = "map" -> "map key"
      [] kind = "set" -> "set key"

\* the last read the call made
LastRead == ret.st.log[Len(ret.st.log)]

----------------------------------------------------------------------------
(* The object decoder (C12) *)

Log == ret.st.log

\* the k-th read of the call was of a whole pair
WholePair(k) == Log[k][2] + 8 <= Len(srcReader.s)

\* the tag of the pair the k-th read of the call was of
TagRead(k) == TagAt(srcReader.s, Log[k][2])

\* C12: in any object the call decodes, a pair read where a key is expected
\* and of a tag other than EndOfKeys and String fails the call there, no
\* value pair read; a String there is followed by the read of its
\* characters and then by the read of one value pair; a value pair is read
\* only after a String key and its characters; after a scalar value the next
\* read is that of the next key. A call of deserializeObject that succeeds
\* was handed String keys only and returns their entries.
C12_ObjectKeysAreStrings ==
    pc = "done" =>
        /\ \A k \in 1..Len(Log) :
              Log[k][1] = "object key" /\ WholePair(k) =>
                  CASE TagRead(k) = tagEndOfKeys -> TRUE
                    [] TagRead(k) = tagString ->
                          /\ k < Len(Log)
                          /\ Log[k + 1][1] \in StringSites
                          /\ Log[k + 1][2] = Log[k][2] + 8
                          /\ k + 2 <= Len(Log) => Log[k + 2][1] = "object value"
                    [] OTHER ->
                          /\ k = Len(Log)
                          /\ ret.err # NilErr
                          /\ ret.err[Len(ret.err)] = "unsupported key type"
                          /\ srcReader.i = Log[k][2] + 8
        /\ \A k \in 1..Len(Log) :
              Log[k][1] = "object value" =>
                  /\ k >= 3
                  /\ Log[k - 1][1] \in StringSites
                  /\ Log[k - 2][1] = "object key"
                  /\ TagRead(k - 2) = tagString
        /\ \A k \in 1..Len(Log) :
              /\ Log[k][1] = "object value"
              /\ WholePair(k)
              /\ TagRead(k) \in {tagInt32, tagBoolean, tagNull}
              => /\ k < Len(Log)
                 /\ Log[k + 1] = <<"object key", Log[k][2] + 8>>
        /\ args.fn = "obj" /\ gen.family = "whole" /\ ret.err = NilErr =>
              /\ \A k \in 1..Len(gen.kids) : gen.kids[k].key.t = tagString
              /\ DOMAIN ret.val = {KeyText(gen.kids[k]) : k \in 1..Len(gen.kids)}
              /\ srcReader.i = Len(gen.blob)

\* the object of the entries a: 42 and then 0: 42, whose second key is an
\* Int32: the first entry read, the call failed at the second key
C12_Witness ==
    /\ pc = "done"
    /\ args.fn = "obj"
    /\ gen.family = "whole"
    /\ gen.kids = <<Entry(KeyA, Int32Node(42)), Entry(Int32Node(0), Int32Node(42))>>
    /\ ret.err = <<"unsupported key type">>
    /\ Log = << <<"object key", 0>>, <<"ascii string", 8, 1>>, <<"object value", 16>>,
                <<"object key", 24>> >>
    /\ srcReader.i = 32

----------------------------------------------------------------------------
(* Specification StringSpec: deserializeString applied to any data word of *)
(* a sample and a reader at the start of any short stream.                 *)

\* longest stream before the bytes that complete a word
MaxStringStream == 4

\* greatest length, in characters, below 2^16 that the data word carries
MaxStringChars == 3

\* bytes of ASCII, of the high half of a unit, and of the byte order marks
StringBytes == {0, 97, 254, 255}

\* what follows the stream: nothing, or enough for any padding
StringTails == {<<>>, <<7, 7, 7, 7, 7, 7, 7, 7>>}

StringInit ==
    /\ pc = "call"
    /\ row = NoRow
    /\ \E ascii \in BOOLEAN, high \in 0..1, low \in 0..MaxStringChars :
         args = [strData |-> U32((IF ascii THEN 32768 ELSE 0) + high, low)]
    /\ \E s \in SeqsUpTo(StringBytes, MaxStringStream), tail \in StringTails :
         srcReader = [s |-> s \o tail, i |-> 0]
    /\ gen = [start |-> 0]
    /\ ret = <<>>
    /\ pd = ZeroDetector
    /\ now = 0

CallDeserializeString ==
    /\ pc = "call"
    /\ LET r == deserializeString(args.strData, srcReader.s, St(srcReader.i, <<>>, 0))
       IN  /\ ret' = [val |-> r.val, err |-> r.err]
           /\ srcReader' = [srcReader EXCEPT !.i = r.st.i]
    /\ pc' = "done"
    /\ UNCHANGED <<row, args, gen, pd, now>>

StringNext == CallDeserializeString

StringSpec == StringInit /\ [][StringNext]_vars

----------------------------------------------------------------------------
(* The string decoder (C13, C14) *)

\* bit 31 of the data word under call
AsciiBit == args.strData[1] >= 32768

\* the low 31 bits of the data word under call
Low31 == (args.strData[1] % 32768) * 65536 + args.strData[2]

\* the bytes that were in the reader when the call was made
Remaining == Len(srcReader.s) - gen.start

\* the character bytes of the string under call are in the stream
CharsInStream == IF AsciiBit THEN Low31 <= Remaining ELSE Low31 <= Remaining \div 2

\* the number of them
CharByteCount == IF AsciiBit THEN Low31 ELSE 2 * Low31

\* those bytes
CharBytesRead == SubSeq(srcReader.s, gen.start + 1, gen.start + CharByteCount)

\* UTF-8 of a code point below 0x10000
Utf8Of(u) ==
    IF u < 128 THEN <<u>>
    ELSE IF u < 2048 THEN <<192 + (u \div 64), 128 + (u % 64)>>
    ELSE <<224 + (u \div 4096), 128 + ((u \div 64) % 64), 128 + (u % 64)>>

\* UTF-8 of the 2-byte units of b from byte k on, none a surrogate, each
\* little-endian or big-endian
RECURSIVE Utf8OfUnits(_, _, _)
Utf8OfUnits(b, k, little) ==
    IF k > Len(b) THEN <<>>
    ELSE Utf8Of(IF little THEN b[k] + 256 * b[k + 1] ELSE 256 * b[k] + b[k + 1])
         \o Utf8OfUnits(b, k + 2, little)

\* b decoded as UTF-16LE
AsUtf16LE(b) == Utf8OfUnits(b, 1, TRUE)

\* b decoded as UTF-16, little-endian unless it starts with the big-endian
\* byte order mark, a byte order mark at its start dropped
AsUtf16WithBOM(b) ==
    IF Len(b) >= 2 /\ b[1] = 254 /\ b[2] = 255 THEN Utf8OfUnits(b, 3, FALSE)
    ELSE IF Len(b) >= 2 /\ b[1] = 255 /\ b[2] = 254 THEN Utf8OfUnits(b, 3, TRUE)
    ELSE Utf8OfUnits(b, 1, TRUE)

\* what the dispatcher returns for the data word under call with the tag
ViaDispatcher(itemTag) ==
    deserializeNext(itemTag, args.strData, srcReader.s, St(gen.start, <<>>, 0), 0)

\* the call returned what the dispatcher returns for the tag, and left the
\* reader where the dispatcher leaves it
SameAsDispatcher(itemTag) ==
    /\ ViaDispatcher(itemTag).val = ret.val
    /\ ViaDispatcher(itemTag).err = ret.err
    /\ ViaDispatcher(itemTag).st.i = srcReader.i

\* C13 as stated: the length is the low 31 bits of the data word and bit 31
\* says ASCII; with the character bytes in the stream the call returns the
\* length bytes themselves for ASCII and the 2 * length bytes decoded as
\* UTF-16LE otherwise; with fewer in the stream it returns an error and no
\* string; String and StringObject values are decoded this way alike.
C13_StringAsUtf16LE ==
    pc = "done" =>
        /\ IF CharsInStream
           THEN /\ ret.err = NilErr
                /\ ret.val = IF AsciiBit THEN CharBytesRead ELSE AsUtf16LE(CharBytesRead)
                /\ srcReader.i >= gen.start + CharByteCount
           ELSE ret.err # NilErr /\ ret.val = <<>>
        /\ SameAsDispatcher(tagString)
        /\ SameAsDispatcher(tagStringObject)

\* C13, amended: the same, the 2 * length bytes decoded as UTF-16 that is
\* little-endian unless the bytes start with the big-endian byte order mark
\* FE FF, a byte order mark at their start dropped.
C13_StringAsUtf16WithBOM ==
    pc = "done" =>
        /\ IF CharsInStream
           THEN /\ ret.err = NilErr
                /\ ret.val = IF AsciiBit THEN CharBytesRead ELSE AsUtf16WithBOM(CharBytesRead)
                /\ srcReader.i >= gen.start + CharByteCount
           ELSE ret.err # NilErr /\ ret.val = <<>>
        /\ SameAsDispatcher(tagString)
        /\ SameAsDispatcher(tagStringObject)

\* two units, FE FF and 00 61: the byte order mark dropped, the second
\* unit read big-endian as "a"
C13_Witness ==
    /\ pc = "done"
    /\ args.strData = U32(0, 2)
    /\ srcReader.s = <<254, 255, 0, 97>>
    /\ ret.err = NilErr
    /\ ret.val = <<97>>
    /\ srcReader.i = 4

\* the stream holds the character bytes of the string under call and ends
\* before the end of its padding
EndsInPadding ==
    /\ CharsInStream
    /\ Remaining < CharByteCount + PadAfter(CharByteCount)

\* C14: when the stream holds every character byte of a string and ends
\* before the 8 - (b mod 8) padding bytes are complete, the call returns the
\* whole string and no error, and leaves the reader at the end of the
\* stream, where a read of a pair fails.
C14_EndOfStreamInPaddingTolerated ==
    pc = "done" /\ EndsInPadding =>
        /\ ret.err = NilErr
        /\ ret.val = IF AsciiBit THEN CharBytesRead ELSE AsUtf16WithBOM(CharBytesRead)
        /\ srcReader.i = Len(srcReader.s)
        /\ nextPair(srcReader.s, srcReader.i).err # NilErr

\* an ASCII string of 3 characters, then 1 of its 5 padding bytes
C14_Witness ==
    /\ pc = "done"
    /\ args.strData = U32(32768, 3)
    /\ srcReader.s = <<97, 97, 97, 0>>
    /\ ret.err = NilErr
    /\ ret.val = <<97, 97, 97>>
    /\ srcReader.i = 4

----------------------------------------------------------------------------
(* Dates (C15) *)

\* the 64-bit number of the pair at position p of s: its tag the high word
PairAt(s, p) == <<TagAt(s, p)[1], TagAt(s, p)[2], DataAt(s, p)[1], DataAt(s, p)[2]>>

\* C15: for a DateObject pair of any data, with a whole pair (t, d) of any
\* tag next in the stream the dispatcher reads that pair and no more and
\* returns the decimal text of (u64(t) << 32) | u64(d), without error; with
\* less than a pair next it returns an error and no text.
C15_DateIsTheNextPair ==
    pc = "done" /\ args.itemTag = tagDateObject =>
        IF Len(srcReader.s) - gen.start >= 8
        THEN /\ ret.err = NilErr
             /\ IsDecimalOf(ret.val, PairAt(srcReader.s, gen.start))
             /\ srcReader.i = gen.start + 8
        ELSE /\ ret.err # NilErr
             /\ ret.val = <<>>

\* a DateObject pair of data 0xffffffff before the pair (0x42789abc,
\* 0x00010002): the text 4789748335953117186
C15_Witness ==
    /\ pc = "done"
    /\ args.itemTag = tagDateObject
    /\ args.itemData = U32(\hffff, \hffff)
    /\ Len(srcReader.s) = 16
    /\ TagAt(srcReader.s, 0) = U32(\h4278, \h9abc)
    /\ ret.err = NilErr
    /\ ret.val = <<52, 55, 56, 57, 55, 52, 56, 51, 51, 53, 57, 53, 51, 49, 49, 55, 49, 56, 54>>
    /\ srcReader.i = 8

----------------------------------------------------------------------------
(* What the values of the samples render to, and JSON text, written out    *)

\* the bytes the dispatcher is to return for a value of the samples
Rendered(v) ==
    CASE v.k = "str" /\ v.n[1] >= 32768 -> v.b
      [] v = WideA -> <<97>>
      [] v = Int32Node(1) -> <<49>>
      [] v = Int32Node(7) -> <<55>>
      [] v = Int32Node(42) -> <<52, 50>>
      [] v = BoolNode(0) -> <<102, 97, 108, 115, 101>>
      [] v = BoolNode(1) -> <<116, 114, 117, 101>>
      [] v = NullNode -> <<>>
      [] v \in {ObjNode(<<>>), SetNode(<<>>)} -> <<123, 125>>
      [] v = ObjX1 -> <<123, 34, 120, 34, 58, 34, 49, 34, 125>>
      [] v = ObjX1X7 -> <<123, 34, 120, 34, 58, 34, 55, 34, 125>>
      [] v = SetS -> <<123, 34, 115, 34, 58, 123, 125, 125>>

\* a JSON string of text that holds no control character, no <, > or &, and
\* ASCII only: quotes and backslashes escaped
RECURSIVE Escaped(_, _)
Escaped(text, k) ==
    IF k > Len(text) THEN <<>>
    ELSE (IF text[k] \in {34, 92} THEN <<92, text[k]>> ELSE <<text[k]>>)
         \o Escaped(text, k + 1)

Quoted(text) == <<34>> \o Escaped(text, 1) \o <<34>>

\* the texts of parts from the k-th on, a comma between two
RECURSIVE CommaJoined(_, _)
CommaJoined(parts, k) ==
    IF k > Len(parts) THEN <<>>
    ELSE IF k = Len(parts) THEN parts[k]
    ELSE parts[k] \o <<44>> \o CommaJoined(parts, k + 1)

\* the greatest of a set of numbers
Greatest(S) == CHOOSE x \in S : \A y \in S : y <= x

----------------------------------------------------------------------------
(* Arrays (C16, C17) *)

\* the index the k-th entry of the array carries
IdxOf(k) == gen.kids[k].key.n[2]

\* the k-th entry of the array is of a tag the array decoder handles
Handled(k) ==
    \/ gen.kids[k].val.k = "obj"
    \/ gen.kids[k].val.k = "str" /\ gen.kids[k].val.t = tagString

\* the entries that carry the index i
WrittenAt(i) == {k \in 1..Len(gen.kids) : IdxOf(k) = i}

\* the JSON text of slot i: null when no entry carries i, else the string of
\* the last entry that does
SlotText(i) ==
    IF WrittenAt(i) = {} THEN <<110, 117, 108, 108>>
    ELSE Quoted(Rendered(gen.kids[Greatest(WrittenAt(i))].val))

DeclaredLength == args.arrayLength[2]

\* C16: a call of deserializeArray for the declared length n, on entries of
\* handled tags at indexes below n in any order, returns the JSON array of
\* n elements whose element i is the string of the last entry of index i,
\* and null when no entry has index i.
C16_ArraySlotsByIndex ==
    /\ pc = "done"
    /\ args.fn = "arr"
    /\ gen.family = "whole"
    /\ \A k \in 1..Len(gen.kids) : Handled(k) /\ IdxOf(k) < DeclaredLength
    => /\ ret.err = NilErr
       /\ ret.val = <<91>> \o CommaJoined([i \in 1..DeclaredLength |-> SlotText(i - 1)], 1)
                    \o <<93>>
       /\ srcReader.i = Len(gen.blob)

\* length 2, the one entry "hi" at index 1: [null,"hi"]
C16_Witness ==
    /\ pc = "done"
    /\ args.fn = "arr"
    /\ gen.family = "whole"
    /\ DeclaredLength = 2
    /\ gen.kids = <<Entry(Int32Node(1), AsciiNode(<<104, 105>>))>>
    /\ ret.err = NilErr
    /\ ret.val = <<91, 110, 117, 108, 108, 44, 34, 104, 105, 34, 93>>

\* the entries before the k-th are of handled tags at indexes below the
\* declared length, and the k-th is of another tag
FirstUnhandled(k) ==
    /\ ~Handled(k)
    /\ \A j \in 1..(k - 1) : Handled(j) /\ IdxOf(j) < DeclaredLength

\* where the encoding of the k-th entry of the composite starts
OffsetOf(k) == Len(EncodeKids(gen.kind, SubSeq(gen.kids, 1, k - 1), 1, ZeroPad))

UnsupportedElement == "cannot process item at index in array: unsupported tag type"

\* C17: a call of deserializeArray that comes to an element pair of a tag
\* other than ObjectObject and String fails there with the
\* unsupported-element error, at whatever index, having read the pair and
\* nothing of what follows it, and returns no array; and in any array the
\* call decodes, the read of such an element pair is the last read of the
\* call.
C17_OtherElementTagsRejected ==
    pc = "done" =>
        /\ args.fn = "arr" /\ gen.family = "whole" =>
              \A k \in 1..Len(gen.kids) :
                  FirstUnhandled(k) =>
                      /\ ret.err = <<UnsupportedElement>>
                      /\ ret.val = <<>>
                      /\ srcReader.i = OffsetOf(k) + 16
        /\ \A k \in 1..Len(Log) :
              /\ Log[k][1] = "array item"
              /\ WholePair(k)
              /\ TagRead(k) \notin {tagObjectObject, tagString}
              => /\ k = Len(Log)
                 /\ ret.err # NilErr
                 /\ ret.err[Len(ret.err)] = UnsupportedElement

\* "hi" at index 1, then a StringObject at index 0
C17_Witness ==
    /\ pc = "done"
    /\ args.fn = "arr"
    /\ gen.family = "whole"
    /\ DeclaredLength = 2
    /\ gen.kids = <<Entry(Int32Node(1), AsciiNode(<<104, 105>>)),
                    Entry(Int32Node(0), StrObjNode(<<115>>))>>
    /\ ret.err = <<UnsupportedElement>>
    /\ srcReader.i = 40

----------------------------------------------------------------------------
(* Maps (C18) *)

\* a node of which bytes follow the first pair
HasTail(v) == v.k \in {"str", "obj", "set"}

\* the site of the first read made of what follows the first pair of a node
FirstSite(v) ==
    CASE v.k = "obj" -> "object key"
      [] v.k = "set" -> "set key"
      [] v.k = "str" /\ v.n[1] >= 32768 -> "ascii string"
      [] v.k = "str" /\ v.n[1] < 32768 -> "utf16 string"

\* where the bytes that follow the two pairs of the j-th entry of the map
\* start, and where those of its key end
KeyStart(j) == OffsetOf(j) + 16

KeyEnd(j) == KeyStart(j) + Len(EncodeTail(gen.kids[j].key, ZeroPad))

\* the reads of the j-th entry of the map, from the k-th read of the call on:
\* the key pair, the value pair, what follows the key, and only then what
\* follows the value
EntryReadFrom(j, k) ==
    /\ k + 1 <= Len(Log)
    /\ Log[k] = <<"map key", OffsetOf(j)>>
    /\ Log[k + 1] = <<"map value", OffsetOf(j) + 8>>
    /\ HasTail(gen.kids[j].key) =>
          /\ k + 2 <= Len(Log)
          /\ Log[k + 2][1] = FirstSite(gen.kids[j].key)
          /\ Log[k + 2][2] = KeyStart(j)
    /\ HasTail(gen.kids[j].val) =>
          \E m \in (k + 2)..Len(Log) :
              /\ Log[m][1] = FirstSite(gen.kids[j].val)
              /\ Log[m][2] = KeyEnd(j)
              /\ \A x \in (k + 2)..(m - 1) :
                    Log[x][2] >= KeyStart(j) /\ Log[x][2] < KeyEnd(j)
              /\ \A x \in (m + 1)..Len(Log) : Log[x][2] >= KeyEnd(j)

\* the keys of the entries of the composite are of tags the dispatcher decodes
KeysDecoded == \A j \in 1..Len(gen.kids) : gen.kids[j].key.k # "unknown"

\* C18: in a call of deserializeMap, a pair read in key position whose tag
\* is not EndOfKeys is followed at once by the read of the value pair, the
\* pair after it, and a value pair is read nowhere else; a pair of tag
\* EndOfKeys read in key position is the last read of the call, which
\* succeeds. On the encoding of a map (both pairs, the rest of the key with
\* its own EndOfKeys, the rest of the value) the call reads each entry in
\* that order and succeeds, and for a map of one entry returns the key's
\* text bound to the value's text.
C18_MapKeyPairValuePairKeyValue ==
    pc = "done" /\ args.fn = "map" =>
        /\ \A k \in 1..Len(Log) :
              Log[k][1] = "map key" /\ WholePair(k) =>
                  IF TagRead(k) = tagEndOfKeys
                  THEN /\ k = Len(Log)
                       /\ ret.err = NilErr
                       /\ srcReader.i = Log[k][2] + 8
                  ELSE /\ k < Len(Log)
                       /\ Log[k + 1] = <<"map value", Log[k][2] + 8>>
        /\ \A k \in 1..Len(Log) :
              Log[k][1] = "map value" =>
                  /\ k >= 2
                  /\ Log[k - 1] = <<"map key", Log[k][2] - 8>>
                  /\ TagRead(k - 1) # tagEndOfKeys
        /\ gen.family = "whole" /\ KeysDecoded =>
              /\ ret.err = NilErr
              /\ \A j \in 1..Len(gen.kids) : \E k \in 1..Len(Log) : EntryReadFrom(j, k)
              /\ LastRead = <<"map key", Len(gen.blob) - 8>>
              /\ Len(gen.kids) = 1 =>
                    ret.val = <<123>> \o Quoted(Rendered(gen.kids[1].key)) \o <<58>>
                              \o Quoted(Rendered(gen.kids[1].val)) \o <<125>>

\* the map of {"s"} -> {x: 1} and then "a" -> "hi": the set's element and
\* its EndOfKeys are read before the object's key
C18_Witness ==
    /\ pc = "done"
    /\ args.fn = "map"
    /\ gen.family = "whole"
    /\ gen.kids = <<Entry(SetS, ObjX1), Entry(KeyA, AsciiNode(<<104, 105>>))>>
    /\ ret.err = NilErr
    /\ Len(Log) = 14
    /\ SubSeq(Log, 1, 6) = <<<<"map key", 0>>, <<"map value", 8>>, <<"set key", 16>>,
                             <<"ascii string", 24, 1>>, <<"set key", 32>>,
                             <<"object key", 40>>>>
    /\ srcReader.i = Len(gen.blob)

----------------------------------------------------------------------------
(* Sets (C19) *)

\* text a comes before text b, byte by byte, a proper prefix first
Before(a, b) ==
    \E i \in 1..(Min(Len(a), Len(b)) + 1) :
        /\ \A x \in 1..(i - 1) : a[x] = b[x]
        /\ \/ i > Len(a) /\ i <= Len(b)
           \/ i <= Len(a) /\ i <= Len(b) /\ a[i] < b[i]

\* the texts of a set, each once, in order
InOrder(S) ==
    CHOOSE q \in [1..Cardinality(S) -> S] :
        \A i, j \in 1..Cardinality(S) : i < j => Before(q[i], q[j])

\* the texts the elements of the set render to
ElementTexts == {Rendered(gen.kids[j].key) : j \in 1..Len(gen.kids)}

\* the JSON object of the given texts, in order, each bound to {}
ObjectOfEmpties(texts) ==
    <<123>> \o CommaJoined([k \in 1..Len(texts) |-> Quoted(texts[k]) \o <<58, 123, 125>>], 1)
    \o <<125>>

\* C19: a call of deserializeSet reads no value pair; a pair of tag
\* EndOfKeys read in element position is the last read of the call, which
\* succeeds; after an element that is one pair and no more, the next read is
\* that of the next element, the pair after it. On the encoding of a set the
\* call reads each element's pair in element position, succeeds, leaves the
\* reader at the end, and returns the JSON object whose keys are the texts
\* its elements render to, each once, each bound to the empty object.
C19_SetAsObjectOfEmpties ==
    pc = "done" /\ args.fn = "set" =>
        /\ \A k \in 1..Len(Log) : Log[k][1] \notin {"map value", "object value"}
        /\ \A k \in 1..Len(Log) :
              Log[k] = <<"set key", Log[k][2]>> /\ WholePair(k) =>
                  CASE TagRead(k) = tagEndOfKeys /\ Log[k][2] = Len(gen.blob) - 8 ->
                          /\ k = Len(Log)
                          /\ ret.err = NilErr
                          /\ srcReader.i = Log[k][2] + 8
                    [] TagRead(k) \in {tagInt32, tagBoolean, tagNull} ->
                          /\ k < Len(Log)
                          /\ Log[k + 1] = <<"set key", Log[k][2] + 8>>
                    [] OTHER -> TRUE
        /\ gen.family = "whole" /\ KeysDecoded =>
              /\ ret.err = NilErr
              /\ \A j \in 1..Len(gen.kids) :
                    \E k \in 1..Len(Log) : Log[k] = <<"set key", OffsetOf(j)>>
              /\ srcReader.i = Len(gen.blob)
              /\ ret.val = ObjectOfEmpties(InOrder(ElementTexts))

\* the set of 1 and "1", of one text
C19_Witness ==
    /\ pc = "done"
    /\ args.fn = "set"
    /\ gen.family = "whole"
    /\ gen.kids = <<Entry(Int32Node(1), NoNode), Entry(AsciiNode(<<49>>), NoNode)>>
    /\ ret.err = NilErr
    /\ ret.val = <<123, 34, 49, 34, 58, 123, 125, 125>>
    /\ srcReader.i = 32

\* the set of the empty set and false: two texts, "false" before "{}"
C19_WitnessTwoTexts ==
    /\ pc = "done"
    /\ args.fn = "set"
    /\ gen.kids = <<Entry(SetNode(<<>>), NoNode), Entry(BoolNode(0), NoNode)>>
    /\ ret.err = NilErr
    /\ ret.val = <<123>> \o Quoted(<<102, 97, 108, 115, 101>>) \o <<58, 123, 125, 44>>
                 \o Quoted(<<123, 125>>) \o <<58, 123, 125, 125>>

----------------------------------------------------------------------------
(* Duplicate keys (C20) *)

\* the texts the keys of the entries render to
KeyTexts == {Rendered(gen.kids[j].key) : j \in 1..Len(gen.kids)}

\* the last entry, in stream order, whose key renders to the text
LastWith(text) ==
    Greatest({j \in 1..Len(gen.kids) : Rendered(gen.kids[j].key) = text})

\* the keys of the entries are Strings and the values are of tags the
\* dispatcher decodes
StringKeysDecodedValues ==
    \A j \in 1..Len(gen.kids) :
        /\ gen.kids[j].key.k = "str"
        /\ gen.kids[j].key.t = tagString
        /\ gen.kids[j].val.k # "unknown"

\* the JSON object of the given key texts, in order, each bound to the text
\* of the value of the last entry of that key
ObjectOfLast(texts) ==
    <<123>>
    \o CommaJoined([k \in 1..Len(texts) |->
                       Quoted(texts[k]) \o <<58>>
                       \o Quoted(Rendered(gen.kids[LastWith(texts[k])].val))], 1)
    \o <<125>>

\* C20: a call of deserializeObject on the encoding of an object of String
\* keys returns a mapping of exactly the texts of the keys, each bound to
\* the text of the value of the last entry, in stream order, whose key
\* renders to that text, a nested object among the values rendered the same
\* way; a call of deserializeMap on the encoding of a map returns the JSON
\* object of exactly the texts of the keys, each once and bound to the text
\* of the value of the last entry whose key renders to that text.
C20_LastWriterWins ==
    pc = "done" /\ gen.family = "whole" =>
        /\ args.fn = "obj" /\ StringKeysDecodedValues =>
              /\ ret.err = NilErr
              /\ DOMAIN ret.val = KeyTexts
              /\ \A text \in KeyTexts :
                    ret.val[text] = Rendered(gen.kids[LastWith(text)].val)
        /\ args.fn = "map" /\ KeysDecoded =>
              /\ ret.err = NilErr
              /\ ret.val = ObjectOfLast(InOrder(KeyTexts))

\* the object of the entries a: 42 and then a: true, the second key in
\* UTF-16
C20_Witness ==
    /\ pc = "done"
    /\ args.fn = "obj"
    /\ gen.family = "whole"
    /\ gen.kids = <<Entry(KeyA, Int32Node(42)), Entry(WideA, BoolNode(1))>>
    /\ ret.err = NilErr
    /\ DOMAIN ret.val = {<<97>>}
    /\ ret.val[<<97>>] = <<116, 114, 117, 101>>

\* the map of "a" -> "hi" and then "a" -> 42
C20_WitnessMap ==
    /\ pc = "done"
    /\ args.fn = "map"
    /\ gen.family = "whole"
    /\ gen.kids = <<Entry(KeyA, AsciiNode(<<104, 105>>)), Entry(KeyA, Int32Node(42))>>
    /\ ret.err = NilErr
    /\ ret.val = <<123, 34, 97, 34, 58, 34, 52, 50, 34, 125>>

\* the object whose key b is bound to the object of x: 1 and then x: 7
C20_WitnessNested ==
    /\ pc = "done"
    /\ args.fn = "obj"
    /\ gen.family = "whole"
    /\ gen.kids = <<Entry(KeyB, ObjX1X7)>>
    /\ ret.err = NilErr
    /\ ret.val[<<98>>] = <<123, 34, 120, 34, 58, 34, 55, 34, 125>>

----------------------------------------------------------------------------
(* Array indexes (C21) *)

\* the k-th entry is of a handled tag and carries an index at or beyond the
\* declared length, the entries before it of handled tags at indexes below it
FirstOutOfRange(k) ==
    /\ Handled(k)
    /\ IdxOf(k) >= DeclaredLength
    /\ \A j \in 1..(k - 1) : Handled(j) /\ IdxOf(j) < DeclaredLength

\* C21: a call of deserializeArray never ends in a run-time panic; on an
\* array with an entry whose index is at or beyond the declared length
\* (any index when the length is 0) the call returns an error and no array.
C21_IndexOutOfRangeIsAnError ==
    pc = "done" /\ args.fn = "arr" =>
        /\ ~IsPanic(ret.err)
        /\ gen.family = "whole" =>
              \A k \in 1..Len(gen.kids) :
                  FirstOutOfRange(k) => ret.err # NilErr /\ ret.val = <<>>

----------------------------------------------------------------------------
(* Specification StreamSpec: deserializeFirefox on streams of any words,   *)
(* well-formed or not: after the header pair, the top-level object's pair  *)
(* and the key "a", any short sequence of pairs, string bodies and half    *)
(* words.                                                                  *)

MaxWords == 4

\* the pair of an ASCII string of one character, and the word of its body
StringHead == PairWord(tagString, U32(32768, 1))

StringBody == <<97, 0, 0, 0, 0, 0, 0, 0>>

HalfWord == <<0, 0, 0, 0>>

StreamWords ==
    { EndWord, StringHead, StringBody, HalfWord,
      PairWord(tagInt32, U32(0, 1)),
      PairWord(tagArrayObject, U32(0, 1)),
      PairWord(tagObjectObject, U32Zero),
      PairWord(tagMapObject, U32Zero),
      PairWord(tagSetObject, U32Zero) }

StreamPrefix ==
    PairWord(tagHeader, U32Zero) \o PairWord(tagObjectObject, U32Zero)
    \o StringHead \o StringBody

RECURSIVE Flat(_, _)
Flat(ws, k) == IF k > Len(ws) THEN <<>> ELSE ws[k] \o Flat(ws, k + 1)

StreamInit ==
    /\ pc = "call"
    /\ \E ws \in SeqsUpTo(StreamWords, MaxWords) :
         /\ row = [data |-> StreamPrefix \o Flat(ws, 1)]
         /\ gen = [family |-> "stream", words |-> ws,
                   blob |-> StreamPrefix \o Flat(ws, 1)]
    /\ srcReader = [s |-> <<>>, i |-> 0]
    /\ args = <<>>
    /\ ret = NotReturned
    /\ pd = ZeroDetector
    /\ now = 0

StreamNext == DeserializeFirefox

StreamSpec == StreamInit /\ [][StreamNext]_vars

----------------------------------------------------------------------------
(* Termination (C22) *)

\* the sites of the reads that start an iteration of a loop
LoopSites == {"object key", "array index", "map key", "set key"}

\* the reads of the call never go backwards: each read starts at or after
\* the one before it, a whole pair read moves the reader 8 bytes, and the
\* reader ends at or after the last read, within the stream
ReadsLeftToRight ==
    /\ \A k \in 1..(Len(Log) - 1) :
          /\ Log[k][2] <= Log[k + 1][2]
          /\ Len(Log[k]) = 2 /\ WholePair(k) => Log[k][2] + 8 <= Log[k + 1][2]
    /\ Len(Log) >= 1 =>
          /\ LastRead[2] <= srcReader.i
          /\ Len(LastRead) = 2 /\ WholePair(Len(Log)) => srcReader.i = LastRead[2] + 8
    /\ srcReader.i <= Len(srcReader.s)

\* each iteration of a loop reads a whole pair first, or is the end of the
\* call, with an error
IterationsConsumeAPair ==
    \A k \in 1..Len(Log) :
        Log[k][1] \in LoopSites =>
            \/ WholePair(k)
            \/ k = Len(Log) /\ ret.err # NilErr

\* C22: on every stream a call of deserializeFirefox ends, and it ends with
\* a mapping or with an error, never otherwise; every iteration of the
\* object, array, map and set loops reads a whole pair or ends the call
\* with an error; and the reads of the call go left to right.
C22_EndsWithMappingOrError ==
    pc = "done" =>
        /\ ~IsPanic(ret.err)
        /\ ret.err = NilErr <=> ~ret.isNil
        /\ ReadsLeftToRight
        /\ IterationsConsumeAPair

\* the part of C22 that holds: whatever way the call ends, every iteration
\* read a whole pair or ended the call, and the reads went left to right
C22_ProgressOnEveryStream ==
    pc = "done" =>
        /\ ret.err = NilErr <=> ~ret.isNil
        /\ ReadsLeftToRight
        /\ IterationsConsumeAPair

\* an array of declared length 1 inside the top-level object, an element at
\* index 1: the call ends in the run-time panic
C22_PanicReached ==
    /\ pc = "done"
    /\ gen.words = <<PairWord(tagArrayObject, U32(0, 1)), PairWord(tagInt32, U32(0, 1)),
                     StringHead, StringBody>>
    /\ IsPanic(ret.err)

----------------------------------------------------------------------------
(* The presence detector (presencedetection.go): callers of                *)
(* DetectPresence on one PresenceDetector, each a goroutine. Durations and *)
(* times are in seconds; the zero time.Time is 0 and the clock starts      *)
(* after it.                                                               *)

\* goroutines that call DetectPresence
NumCallers == 2

\* latest time of the clock
MaxTime == 3

Callers == 1..NumCallers

DetectionFailedDurationValue == -1

\* errors.New("detection already in progress")
AlreadyInProgress == <<"detection already in progress">>

\* the detectionInterval argument
Intervals == {0, 2}

\* what the detector's Detect returns
DetectOutcomes ==
    { [success |-> s, err |-> e] : s \in BOOLEAN, e \in {NilErr, <<"os error">>} }

\* the argument and the locals of a call
Locals(detectionInterval) ==
    [detectionInterval |-> detectionInterval, success |-> FALSE, err |-> NilErr]

Result(d, err) == [d |-> d, err |-> err]

\* no call under way: no locals, nothing returned
NoLocals == Locals(0)

NoResult == Result(0, NilErr)

MutexFree(mutex) == ~mutex

\* a mutant: the lock is taken whether held or not
MutexIgnored(mutex) == TRUE

\* pd.mutex.TryLock()
TryLockSucceeds(mutex) == MutexFree(mutex)

\* time.Since(pd.lastDetection)
Since(lastDetection) == now - lastDetection

\* (pd.lastDetection != time.Time{}) && time.Since(pd.lastDetection) < detectionInterval
WithinInterval(lastDetection, detectionInterval) ==
    lastDetection # 0 /\ Since(lastDetection) < detectionInterval

IfSuccess(success) == success

\* a mutant: a detection that failed without error counts
IfAnything(success) == TRUE

\* if success
Succeeded(success) == IfSuccess(success)

PresenceInit ==
    /\ pc = [p \in Callers |-> "idle"]
    /\ pd = ZeroDetector
    /\ now = 1
    /\ args = [p \in Callers |-> NoLocals]
    /\ ret = [p \in Callers |-> NoResult]
    /\ row = NoRow
    /\ srcReader = [s |-> <<>>, i |-> 0]
    /\ gen = [family |-> "presence"]

\* a goroutine calls pd.DetectPresence(reason, detectionInterval); the
\* locals of a call end with it, its result with the next call
DetectPresence(p) ==
    /\ pc[p] \in {"idle", "returned"}
    /\ \E detectionInterval \in Intervals :
         args' = [args EXCEPT ![p] = Locals(detectionInterval)]
    /\ ret' = [ret EXCEPT ![p] = NoResult]
    /\ pc' = [pc EXCEPT ![p] = "entry"]
    /\ UNCHANGED <<row, srcReader, gen, pd, now>>

\* if !pd.mutex.TryLock() { return ... }; defer pd.mutex.Unlock()
TryLock(p) ==
    /\ pc[p] = "entry"
    /\ IF TryLockSucceeds(pd.mutex)
       THEN /\ pd' = [pd EXCEPT !.mutex = TRUE]
            /\ pc' = [pc EXCEPT ![p] = "locked"]
            /\ UNCHANGED <<args, ret>>
       ELSE /\ pd' = pd
            /\ pc' = [pc EXCEPT ![p] = "returned"]
            /\ ret' = [ret EXCEPT ![p] = Result(DetectionFailedDurationValue,
                                                AlreadyInProgress)]
            /\ args' = [args EXCEPT ![p] = NoLocals]
    /\ UNCHANGED <<row, srcReader, gen, now>>

\* the detector set if nil, then the test of the last detection
CheckInterval(p) ==
    /\ pc[p] = "locked"
    /\ pd' = [pd EXCEPT !.detector = "detector"]
    /\ pc' = [pc EXCEPT ![p] =
                IF WithinInterval(pd.lastDetection, args[p].detectionInterval)
                THEN "since" ELSE "detect"]
    /\ UNCHANGED <<row, srcReader, args, ret, gen, now>>

\* return time.Since(pd.lastDetection), nil: the clock read again, the
\* deferred Unlock
ReturnSince(p) ==
    /\ pc[p] = "since"
    /\ ret' = [ret EXCEPT ![p] = Result(Since(pd.lastDetection), NilErr)]
    /\ pd' = [pd EXCEPT !.mutex = FALSE]
    /\ pc' = [pc EXCEPT ![p] = "returned"]
    /\ args' = [args EXCEPT ![p] = NoLocals]
    /\ UNCHANGED <<row, srcReader, gen, now>>

\* success, err := pd.detector.Detect(reason)
Detect(p) ==
    /\ pc[p] = "detect"
    /\ pd.detector # "nil"
    /\ \E o \in DetectOutcomes :
         args' = [args EXCEPT ![p].success = o.success, ![p].err = o.err]
    /\ pc' = [pc EXCEPT ![p] = "detected"]
    /\ UNCHANGED <<row, srcReader, ret, gen, pd, now>>

\* what follows the call of Detect, and the deferred Unlock
AfterDetect(p) ==
    /\ pc[p] = "detected"
    /\ IF args[p].err # NilErr
       THEN /\ ret' = [ret EXCEPT ![p] = Result(DetectionFailedDurationValue,
                                                Wrap("detecting presence", args[p].err))]
            /\ pd' = [pd EXCEPT !.mutex = FALSE]
       ELSE IF Succeeded(args[p].success)
       THEN /\ ret' = [ret EXCEPT ![p] = Result(0, NilErr)]
            /\ pd' = [pd EXCEPT !.lastDetection = now, !.mutex = FALSE]
       ELSE /\ ret' = [ret EXCEPT ![p] = Result(DetectionFailedDurationValue,
                                                <<"detection failed without OS error">>)]
            /\ pd' = [pd EXCEPT !.mutex = FALSE]
    /\ pc' = [pc EXCEPT ![p] = "returned"]
    /\ args' = [args EXCEPT ![p] = NoLocals]
    /\ UNCHANGED <<row, srcReader, gen, now>>

\* the clock goes on
Tick ==
    /\ now < MaxTime
    /\ now' = now + 1
    /\ UNCHANGED <<pc, row, srcReader, args, ret, gen, pd>>

\* the wall clock is set back: lastDetection is time.Now().UTC(), a time
\* without monotonic reading
ClockSetBack ==
    /\ now > 1
    /\ now' = now - 1
    /\ UNCHANGED <<pc, row, srcReader, args, ret, gen, pd>>

PresenceNext ==
    \/ \E p \in Callers : DetectPresence(p)
    \/ \E p \in Callers : TryLock(p)
    \/ \E p \in Callers : CheckInterval(p)
    \/ \E p \in Callers : ReturnSince(p)
    \/ \E p \in Callers : Detect(p)
    \/ \E p \in Callers : AfterDetect(p)
    \/ Tick
    \/ ClockSetBack

PresenceSpec == PresenceInit /\ [][PresenceNext]_vars

----------------------------------------------------------------------------
(* Detections do not overlap (C23) *)

\* the call of p is past TryLock and has not returned
InProgress(p) == pc[p] \in {"locked", "since", "detect", "detected"}

OneAtATime ==
    /\ Cardinality({p \in Callers : InProgress(p)}) <= 1
    /\ Cardinality({p \in Callers : pc[p] = "detect"}) <= 1
    /\ pd.mutex <=> \E p \in Callers : InProgress(p)

\* what a step of the call of p does
ArrivalStep(p) ==
    /\ /\ pc[p] = "entry"
       /\ pc'[p] # "entry"
       /\ \E q \in Callers \ {p} : InProgress(q)
       => /\ pc'[p] = "returned"
          /\ ret'[p] = Result(DetectionFailedDurationValue, AlreadyInProgress)
          /\ pd' = pd
    /\ /\ pc[p] = "entry"
       /\ pc'[p] # "entry"
       /\ \A q \in Callers : ~InProgress(q)
       => pc'[p] = "locked" /\ pd'.mutex
    /\ pc[p] # "detect" /\ pc'[p] = "detect" => pc[p] = "locked" /\ pd.mutex
    /\ InProgress(p) /\ pc'[p] = "returned" => ~pd'.mutex
    /\ InProgress(p) /\ pc'[p] # "returned" => pd'.mutex

\* C23: at any time at most one call is past TryLock, at most one inside
\* Detect, and the mutex is held exactly while one is; a call that comes
\* to TryLock while another is in progress returns at once the failed
\* duration and the error "detection already in progress", the detector
\* unchanged, Detect not called; Detect is entered by the call that holds
\* the mutex only; and a call that holds the mutex releases it with the
\* step that returns, whichever return it is.
C23_DetectionsNeverOverlap ==
    /\ []OneAtATime
    /\ [][\A p \in Callers : ArrivalStep(p)]_vars

\* caller 2 turned away while caller 1 is inside Detect
C23_Witness ==
    /\ pc[1] = "detect"
    /\ pc[2] = "returned"
    /\ ret[2] = Result(DetectionFailedDurationValue, AlreadyInProgress)
    /\ pd.mutex

----------------------------------------------------------------------------
(* The detector's state (C24) *)

DetectorStep(p) ==
    /\ /\ pc[p] = "detected"
       /\ pc'[p] = "returned"
       /\ args[p].err # NilErr \/ ~args[p].success
       => /\ ret'[p].d = DetectionFailedDurationValue
          /\ ret'[p].err # NilErr
          /\ pd'.lastDetection = pd.lastDetection
    /\ /\ pc[p] = "detected"
       /\ pc'[p] = "returned"
       /\ args[p].err = NilErr
       /\ args[p].success
       => /\ ret'[p] = Result(0, NilErr)
          /\ pd'.lastDetection = now
    /\ /\ pc[p] = "locked"
       /\ pc'[p] # "locked"
       => /\ pd'.lastDetection = pd.lastDetection
          /\ IF pd.lastDetection # 0 /\ now - pd.lastDetection < args[p].detectionInterval
             THEN pc'[p] = "since"
             ELSE pc'[p] = "detect"
    /\ /\ pc[p] = "since"
       /\ pc'[p] # "since"
       => /\ pc'[p] = "returned"
          /\ ret'[p] = Result(now - pd.lastDetection, NilErr)
          /\ pd'.lastDetection = pd.lastDetection

\* C24: lastDetection changes only with the return of a call whose Detect
\* returned success and no error, and becomes the time of that return; a
\* call whose Detect returned an error or no success returns the failed
\* duration and an error and leaves lastDetection as it was; a call that
\* finds a detection younger than detectionInterval does not enter Detect
\* and returns the time since that detection and no error, lastDetection
\* as it was; any other call that holds the mutex enters Detect.
C24_LastDetectionOnSuccessOnly ==
    [][/\ \A p \in Callers : DetectorStep(p)
       /\ pd'.lastDetection # pd.lastDetection =>
             \E p \in Callers :
                 /\ pc[p] = "detected"
                 /\ pc'[p] = "returned"
                 /\ args[p].success
                 /\ args[p].err = NilErr]_vars

\* a call that found the detection of time 1 younger than the interval at
\* time 2, and returned at time 3
C24_Witness ==
    /\ pc[1] = "returned"
    /\ pd.lastDetection = 1
    /\ now = 3
    /\ ret[1] = Result(2, NilErr)
    /\ ~pd.mutex

====
